---- MODULE Spec2Model ----
(***************************************************************************)
(* Roll ledger of src/roll_ledger.py: one RollLedger object, the sequence  *)
(* of its RollEntry periods and the three mutating operations              *)
(* add_initial_entry, roll_contract and close_position.                    *)
(*                                                                         *)
(* Python's Optional[T] is modelled as a sequence: None is <<>> and a      *)
(* present value v is <<v>>.  Prices are the integer-valued floats the     *)
(* test-suite uses; sums and products of them are exact in binary64.       *)
(***************************************************************************)
EXTENDS Integers, Sequences, FiniteSets, TLC

\* Largest number of periods a ledger grows to (roll_contract is unbounded
\* in the code; the guard of the successful roll caps it here).
MaxRolls == 4

None == <<>>

Some(v) == <<v>>

\* Python truthiness of an Optional[str]: None and "" are falsy.
Truthy(o) == o # None /\ o[1] # ""

(***************************************************************************)
(* State.  instrument, contract_multiplier and rolls are the fields of the *)
(* RollLedger.  op, args, raised and ret record the last call made on the  *)
(* ledger as its caller observes it: the method, its arguments, the        *)
(* exception it raised ("" for a normal return) and the period it returned *)
(* (the position in rolls of the returned object, 0 when nothing was       *)
(* returned).  rolled counts the successful roll_contract calls.  result   *)
(* is the value the last valuation query returned (None after any other    *)
(* call).                                                                  *)
(***************************************************************************)
VARIABLES instrument, contract_multiplier, rolls, op, args, raised, ret, rolled, result

vars == <<instrument, contract_multiplier, rolls, op, args, raised, ret, rolled, result>>

ledger == <<instrument, contract_multiplier, rolls>>

\* ---- RollEntry -----------------------------------------------------------

\* The dataclass constructor, with the defaults exit_date = exit_price = None.
RollEntry(roll_number, contract_symbol, entry_date, entry_price, quantity, direction, notes) ==
    [roll_number     |-> roll_number,
     contract_symbol |-> contract_symbol,
     entry_date      |-> entry_date,
     entry_price     |-> entry_price,
     exit_date       |-> None,
     exit_price      |-> None,
     quantity        |-> quantity,
     direction       |-> direction,
     notes           |-> notes]

is_active(r) == r.exit_price = None

\* A mutant of realized_pnl_per_contract: the direction is not looked at.
realized_pnl_per_contract_long_only(r) ==
    IF r.exit_price = None THEN None
    ELSE Some(r.exit_price[1] - r.entry_price)

realized_pnl_per_contract(r) ==
    IF r.exit_price = None THEN None
    ELSE IF r.direction = "LONG" THEN Some(r.exit_price[1] - r.entry_price)
    ELSE Some(r.entry_price - r.exit_price[1])

realized_pnl(r, multiplier) ==
    LET per == realized_pnl_per_contract(r)
    IN  IF per = None THEN None ELSE Some(per[1] * multiplier * r.quantity)

unrealized_pnl_per_contract(r, current_price) ==
    IF ~is_active(r) THEN None
    ELSE IF r.direction = "LONG" THEN Some(current_price - r.entry_price)
    ELSE Some(r.entry_price - current_price)

\* A mutant of unrealized_pnl: the quantity factor is missing.
unrealized_pnl_no_quantity(r, current_price, multiplier) ==
    LET per == unrealized_pnl_per_contract(r, current_price)
    IN  IF per = None THEN None ELSE Some(per[1] * multiplier)

unrealized_pnl(r, current_price, multiplier) ==
    LET per == unrealized_pnl_per_contract(r, current_price)
    IN  IF per = None THEN None ELSE Some(per[1] * multiplier * r.quantity)

\* ---- Float division ------------------------------------------------------

\* The outcome of evaluating an expression: a value, or the exception raised.
Return(v) == [raised |-> "", value |-> v]

Raises(e) == [raised |-> e, value |-> None]

Abs(n) == IF n < 0 THEN -n ELSE n

RECURSIVE GCD(_, _)
GCD(a, b) == IF b = 0 THEN a ELSE GCD(b, a % b)

\* The quotient n / d (d # 0) as a fraction <<numerator, denominator>> in
\* lowest terms with a positive denominator.  The binary64 rounding of the
\* quotient is not modelled.
Rat(n, d) ==
    LET g == GCD(Abs(n), Abs(d))
        sgn == IF d < 0 THEN -1 ELSE 1
    IN  << (sgn * n) \div g, (sgn * d) \div g >>

\* Python's a / b on floats: ZeroDivisionError when b is 0.0.
FloatDiv(a, b) ==
    IF b = 0 THEN Raises("ZeroDivisionError") ELSE Return(Rat(a, b))

\* x - q and x + q for a float x with an integer value and a fraction q.
RatSub(x, q) == << x * q[2] - q[1], q[2] >>

RatAdd(x, q) == << x * q[2] + q[1], q[2] >>

\* ---- RollLedger: queries -------------------------------------------------

RECURSIVE ActiveFrom(_, _)
\* The loop of active_roll: scan rs[i], rs[i-1], ... for the first active one.
ActiveFrom(rs, i) ==
    IF i = 0 THEN 0
    ELSE IF is_active(rs[i]) THEN i
    ELSE ActiveFrom(rs, i - 1)

\* A mutant of active_roll: the last period, active or not.
active_roll_last(rs) == Len(rs)

\* Position in rs of the period active_roll returns; 0 stands for None.
active_roll(rs) == ActiveFrom(rs, Len(rs))

closed_rolls(rs) == SelectSeq(rs, LAMBDA r : ~is_active(r))

RECURSIVE SumRealized(_, _, _)
\* The loop of total_realized_pnl over cs[i..], skipping a None.
SumRealized(cs, multiplier, i) ==
    IF i > Len(cs) THEN 0
    ELSE LET pnl == realized_pnl(cs[i], multiplier)
         IN  (IF pnl # None THEN pnl[1] ELSE 0) + SumRealized(cs, multiplier, i + 1)

RECURSIVE SumPerContract(_, _)
\* The loop of total_realized_pnl_per_contract over cs[i..].
SumPerContract(cs, i) ==
    IF i > Len(cs) THEN 0
    ELSE LET per == realized_pnl_per_contract(cs[i])
         IN  (IF per # None THEN per[1] ELSE 0) + SumPerContract(cs, i + 1)

total_realized_pnl_per_contract(rs) == SumPerContract(closed_rolls(rs), 1)

\* A mutant of total_realized_pnl: every period counts as one contract.
total_realized_pnl_unit_quantity(rs, multiplier) ==
    total_realized_pnl_per_contract(rs) * multiplier

total_realized_pnl(rs, multiplier) == SumRealized(closed_rolls(rs), multiplier, 1)

\* A mutant of breakeven_price: the module docstring's formula, Realized /
\* Multiplier, without the quantity.
breakeven_price_no_quantity(rs, multiplier) ==
    LET i == active_roll(rs)
    IN  IF i = 0 THEN Return(None)
        ELSE IF rs[i].quantity = 0 THEN Return(None)
        ELSE LET adjustment == FloatDiv(total_realized_pnl(rs, multiplier), multiplier)
             IN  IF adjustment.raised # "" THEN adjustment
                 ELSE IF rs[i].direction = "LONG"
                      THEN Return(Some(RatSub(rs[i].entry_price, adjustment.value)))
                      ELSE Return(Some(RatAdd(rs[i].entry_price, adjustment.value)))

\* A mutant of breakeven_price: the LONG formula for either direction.
breakeven_price_long_only(rs, multiplier) ==
    LET i == active_roll(rs)
    IN  IF i = 0 THEN Return(None)
        ELSE IF rs[i].quantity = 0 THEN Return(None)
        ELSE LET adjustment == FloatDiv(total_realized_pnl(rs, multiplier),
                                        multiplier * rs[i].quantity)
             IN  IF adjustment.raised # "" THEN adjustment
                 ELSE Return(Some(RatSub(rs[i].entry_price, adjustment.value)))

\* The outcome of breakeven_price(): Return(None), Return(Some(fraction)) or
\* the ZeroDivisionError of the division.
breakeven_price(rs, multiplier) ==
    LET i == active_roll(rs)
    IN  IF i = 0 THEN Return(None)
        ELSE IF rs[i].quantity = 0 THEN Return(None)
        ELSE LET adjustment == FloatDiv(total_realized_pnl(rs, multiplier),
                                        multiplier * rs[i].quantity)
             IN  IF adjustment.raised # "" THEN adjustment
                 ELSE IF rs[i].direction = "LONG"
                      THEN Return(Some(RatSub(rs[i].entry_price, adjustment.value)))
                      ELSE Return(Some(RatAdd(rs[i].entry_price, adjustment.value)))

\* A mutant of true_pnl: the realized total is not added.
true_pnl_unrealized_only(rs, multiplier, current_price) ==
    LET i == active_roll(rs)
    IN  IF i = 0 THEN None
        ELSE unrealized_pnl(rs[i], current_price, multiplier)

true_pnl(rs, multiplier, current_price) ==
    LET i == active_roll(rs)
    IN  IF i = 0 THEN None
        ELSE LET unrealized == unrealized_pnl(rs[i], current_price, multiplier)
             IN  IF unrealized = None THEN None
                 ELSE Some(unrealized[1] + total_realized_pnl(rs, multiplier))

\* A mutant of true_pnl_per_contract: the dollar total is added to the points.
true_pnl_per_contract_dollars(rs, multiplier, current_price) ==
    LET i == active_roll(rs)
    IN  IF i = 0 THEN None
        ELSE LET unrealized == unrealized_pnl_per_contract(rs[i], current_price)
             IN  IF unrealized = None THEN None
                 ELSE Some(unrealized[1] + total_realized_pnl(rs, multiplier))

\* true_pnl_per_contract reads self only through active_roll and
\* total_realized_pnl_per_contract; the multiplier is carried as the field
\* of self it does not read.
true_pnl_per_contract(rs, multiplier, current_price) ==
    LET i == active_roll(rs)
    IN  IF i = 0 THEN None
        ELSE LET unrealized == unrealized_pnl_per_contract(rs[i], current_price)
             IN  IF unrealized = None THEN None
                 ELSE Some(unrealized[1] + total_realized_pnl_per_contract(rs))

RECURSIVE SeriesFrom(_, _, _, _)
\* The loop of cumulative_pnl_series from period i on, cum being the running
\* total.  An event's date is an Optional[str] (exit_date is one).
SeriesFrom(rs, multiplier, i, cum) ==
    IF i > Len(rs) THEN <<>>
    ELSE LET r == rs[i]
             entry == [roll_number |-> r.roll_number, contract |-> r.contract_symbol,
                       date |-> Some(r.entry_date), cum_pnl |-> cum, event |-> "entry"]
         IN  IF is_active(r)
             THEN <<entry>> \o SeriesFrom(rs, multiplier, i + 1, cum)
             ELSE LET pnl == realized_pnl(r, multiplier)
                      cum2 == cum + (IF pnl # None /\ pnl[1] # 0 THEN pnl[1] ELSE 0)
                      exit == [roll_number |-> r.roll_number, contract |-> r.contract_symbol,
                               date |-> r.exit_date, cum_pnl |-> cum2, event |-> "exit/roll"]
                  IN  <<entry, exit>> \o SeriesFrom(rs, multiplier, i + 1, cum2)

RECURSIVE SeriesPerPeriod(_, _, _)
\* The loop of a cumulative_pnl_series that forgets to accumulate: every
\* exit/roll event carries the period's own realized P&L.
SeriesPerPeriod(rs, multiplier, i) ==
    IF i > Len(rs) THEN <<>>
    ELSE LET r == rs[i]
             entry == [roll_number |-> r.roll_number, contract |-> r.contract_symbol,
                       date |-> Some(r.entry_date), cum_pnl |-> 0, event |-> "entry"]
         IN  IF is_active(r)
             THEN <<entry>> \o SeriesPerPeriod(rs, multiplier, i + 1)
             ELSE LET pnl == realized_pnl(r, multiplier)
                      exit == [roll_number |-> r.roll_number, contract |-> r.contract_symbol,
                               date |-> r.exit_date, cum_pnl |-> pnl[1], event |-> "exit/roll"]
                  IN  <<entry, exit>> \o SeriesPerPeriod(rs, multiplier, i + 1)

\* A mutant of cumulative_pnl_series: cum is reset for every period.
cumulative_pnl_series_per_period(rs, multiplier) == SeriesPerPeriod(rs, multiplier, 1)

cumulative_pnl_series(rs, multiplier) == SeriesFrom(rs, multiplier, 1, 0)

\* ---- CSV serialization ---------------------------------------------------

\* str() of an int and of an integer-valued float, as csv.writer writes them.
IntStr(n) == ToString(n)

FloatStr(x) == ToString(x) \o ".0"

CSV_HEADER_META == <<"instrument", "contract_multiplier">>

CSV_HEADER_ROLLS ==
    <<"roll_number", "contract_symbol", "entry_date", "entry_price", "exit_date",
      "exit_price", "quantity", "direction", "notes">>

\* A mutant of RollRow: the exit price is written before the exit date.
RollRow_exit_swapped(r) ==
    << IntStr(r.roll_number),
       r.contract_symbol,
       r.entry_date,
       FloatStr(r.entry_price),
       IF r.exit_price # None THEN FloatStr(r.exit_price[1]) ELSE "",
       IF Truthy(r.exit_date) THEN r.exit_date[1] ELSE "",
       IntStr(r.quantity),
       r.direction,
       r.notes >>

\* The list to_csv_string passes to writer.writerow for the period r, every
\* cell as the writer stringifies it.
RollRow(r) ==
    << IntStr(r.roll_number),
       r.contract_symbol,
       r.entry_date,
       FloatStr(r.entry_price),
       IF Truthy(r.exit_date) THEN r.exit_date[1] ELSE "",
       IF r.exit_price # None THEN FloatStr(r.exit_price[1]) ELSE "",
       IntStr(r.quantity),
       r.direction,
       r.notes >>

\* The rows to_csv_string writes, in order: meta header, meta data, the blank
\* separator, the period header and one row per period.
to_csv_rows(inst, multiplier, rs) ==
    << <<"#meta">> \o CSV_HEADER_META,
       <<"#meta", inst, FloatStr(multiplier)>>,
       <<>>,
       CSV_HEADER_ROLLS >>
    \o [i \in 1..Len(rs) |-> RollRow(rs[i])]

\* ---- CSV text ------------------------------------------------------------
\* A text is a sequence of tokens: each of the four characters the csv
\* dialect treats specially is a token of its own, and a maximal run of other
\* characters is one token.

Comma == ","

Quote == "\""

CR == "\r"

LF == "\n"

SpecialChars == { Comma, Quote, CR, LF }

\* The strings of the model that contain a special character, each with its
\* tokens.
SpecialStrings ==
    { << "core, hedge", << "core", Comma, " hedge" >> >>,
      << "rolled, gap", << "rolled", Comma, " gap" >> >>,
      << "flat \"0\"", << "flat ", Quote, "0", Quote >> >> }

\* The tokens of the string s.
Tokens(s) ==
    IF \E e \in SpecialStrings : e[1] = s
    THEN (CHOOSE e \in SpecialStrings : e[1] = s)[2]
    ELSE IF s = "" THEN <<>> ELSE <<s>>

RECURSIVE DoubleQuotes(_)
\* doublequote=True: every quote character of a quoted field is written twice.
DoubleQuotes(ts) ==
    IF ts = <<>> THEN <<>>
    ELSE (IF ts[1] = Quote THEN <<Quote, Quote>> ELSE <<ts[1]>>) \o DoubleQuotes(Tail(ts))

\* A mutant of WriteCell: no field is ever quoted (QUOTE_NONE).
WriteCell_unquoted(s) == Tokens(s)

\* csv.writer, QUOTE_MINIMAL: a field is quoted when it contains the
\* delimiter, the quote character or a line terminator character.
WriteCell(s) ==
    LET ts == Tokens(s)
    IN  IF \E i \in 1..Len(ts) : ts[i] \in SpecialChars
        THEN <<Quote>> \o DoubleQuotes(ts) \o <<Quote>>
        ELSE ts

RECURSIVE WriteCells(_, _)
\* The cells row[i..] joined by the delimiter.
WriteCells(row, i) ==
    IF i > Len(row) THEN <<>>
    ELSE WriteCell(row[i])
         \o (IF i < Len(row) THEN <<Comma>> ELSE <<>>)
         \o WriteCells(row, i + 1)

\* writer.writerow(row): the cells and the line terminator "\r\n".
\* A row of one empty cell is written as a quoted empty field.
WriteRow(row) ==
    (IF row = <<"">> THEN <<Quote, Quote>> ELSE WriteCells(row, 1)) \o <<CR, LF>>

RECURSIVE WriteRows(_, _)
WriteRows(rows, i) ==
    IF i > Len(rows) THEN <<>> ELSE WriteRow(rows[i]) \o WriteRows(rows, i + 1)

\* output.getvalue() after to_csv_string has written its rows.
to_csv_string(inst, multiplier, rs) == WriteRows(to_csv_rows(inst, multiplier, rs), 1)

\* ---- csv.reader ----------------------------------------------------------

\* The reader before the first character of a record.
ReaderStart == [state |-> "START_RECORD", field |-> "", fields |-> <<>>,
                rows |-> <<>>, error |-> ""]

\* parse_save_field: the field read so far becomes the next cell.
SaveField(m, next) ==
    [m EXCEPT !.fields = Append(m.fields, m.field), !.field = "", !.state = next]

\* The reader's state machine on one token c of a line (the excel dialect,
\* strict=False).  A run of ordinary characters acts as one such character.
ReaderStep(m, c) ==
    LET st == IF m.state = "START_RECORD" /\ c \notin {CR, LF}
              THEN "START_FIELD" ELSE m.state
    IN  CASE st = "START_RECORD" -> [m EXCEPT !.state = "EAT_CRNL"]
          [] st = "START_FIELD" ->
                IF c \in {CR, LF} THEN SaveField(m, "EAT_CRNL")
                ELSE IF c = Quote THEN [m EXCEPT !.state = "IN_QUOTED_FIELD"]
                ELSE IF c = Comma THEN SaveField(m, "START_FIELD")
                ELSE [m EXCEPT !.field = c, !.state = "IN_FIELD"]
          [] st = "IN_FIELD" ->
                IF c \in {CR, LF} THEN SaveField(m, "EAT_CRNL")
                ELSE IF c = Comma THEN SaveField(m, "START_FIELD")
                ELSE [m EXCEPT !.field = m.field \o c]
          [] st = "IN_QUOTED_FIELD" ->
                IF c = Quote THEN [m EXCEPT !.state = "QUOTE_IN_QUOTED_FIELD"]
                ELSE [m EXCEPT !.field = m.field \o c]
          [] st = "QUOTE_IN_QUOTED_FIELD" ->
                IF c = Quote
                THEN [m EXCEPT !.field = m.field \o c, !.state = "IN_QUOTED_FIELD"]
                ELSE IF c = Comma THEN SaveField(m, "START_FIELD")
                ELSE IF c \in {CR, LF} THEN SaveField(m, "EAT_CRNL")
                ELSE [m EXCEPT !.field = m.field \o c, !.state = "IN_FIELD"]
          [] st = "EAT_CRNL" ->
                IF c \in {CR, LF} THEN m
                ELSE [m EXCEPT !.error = "Error"]

\* The end of a line (the reader's '\0'): a record that is complete is
\* returned, a quoted field goes on in the next line.
EndOfLine(m) ==
    LET n == CASE m.state \in {"START_FIELD", "IN_FIELD", "QUOTE_IN_QUOTED_FIELD"}
                    -> SaveField(m, "START_RECORD")
               [] m.state = "EAT_CRNL" -> [m EXCEPT !.state = "START_RECORD"]
               [] OTHER -> m
    IN  IF n.state = "START_RECORD"
        THEN [n EXCEPT !.rows = Append(n.rows, n.fields), !.fields = <<>>]
        ELSE n

\* The line iterator is exhausted: a record still open is returned.
EndOfInput(m) ==
    IF m.field # "" \/ m.state = "IN_QUOTED_FIELD"
    THEN [m EXCEPT !.rows = Append(m.rows, Append(m.fields, m.field))]
    ELSE m

\* The lines io.StringIO(text) yields: each ends after a "\n", the last one
\* at the end of the text.
Lines(ts) ==
    LET ends == { i \in 1..Len(ts) : ts[i] = LF \/ i = Len(ts) }
        End(k) == CHOOSE i \in ends : Cardinality({ j \in ends : j < i }) = k - 1
    IN  [k \in 1..Cardinality(ends) |->
            SubSeq(ts, IF k = 1 THEN 1 ELSE End(k - 1) + 1, End(k))]

RECURSIVE ReadLine(_, _, _)
\* The reader on the tokens of one line from token i on, then on the end of
\* the line.
ReadLine(line, i, m) ==
    IF m.error # "" THEN m
    ELSE IF i > Len(line) THEN EndOfLine(m)
    ELSE ReadLine(line, i + 1, ReaderStep(m, line[i]))

RECURSIVE ReadLines(_, _, _)
\* list(csv.reader(...)) from line k on.
ReadLines(lines, k, m) ==
    IF m.error # "" THEN m
    ELSE IF k > Len(lines) THEN EndOfInput(m)
    ELSE ReadLines(lines, k + 1, ReadLine(lines[k], 1, m))

\* The rows csv.reader yields for a text, or the csv.Error it raises.
csv_reader(text) ==
    LET m == ReadLines(Lines(text), 1, ReaderStart)
    IN  IF m.error # "" THEN Raises(m.error) ELSE Return(m.rows)

\* ---- futures_instruments: catalog and contract symbols -----------------------
\* A symbol given to a lookup is a sequence of characters, so that str.upper
\* acts on it character by character; Str gives the string it spells.

RECURSIVE Str(_)
Str(cs) == IF cs = <<>> THEN "" ELSE cs[1] \o Str(Tail(cs))

LowerLetters ==
    << "a", "b", "c", "d", "e", "f", "g", "h", "i", "j", "k", "l", "m",
       "n", "o", "p", "q", "r", "s", "t", "u", "v", "w", "x", "y", "z" >>

UpperLetters ==
    << "A", "B", "C", "D", "E", "F", "G", "H", "I", "J", "K", "L", "M",
       "N", "O", "P", "Q", "R", "S", "T", "U", "V", "W", "X", "Y", "Z" >>

\* str.upper on one character: a lower-case letter becomes its capital, any
\* other character stays.
UpperChar(c) ==
    IF \E i \in 1..Len(LowerLetters) : LowerLetters[i] = c
    THEN UpperLetters[CHOOSE i \in 1..Len(LowerLetters) : LowerLetters[i] = c]
    ELSE c

\* symbol.upper()
upper(cs) == [i \in 1..Len(cs) |-> UpperChar(cs[i])]

\* FuturesInstrument(...); the multiplier, a float, is a fraction <<n, d>>
\* (0.5 is <<1, 2>>).
FuturesInstrument(symbol, name, multiplier, yahoo, exchange, category) ==
    [symbol |-> Str(symbol), name |-> name, multiplier |-> multiplier,
     yahoo_ticker |-> yahoo, exchange |-> exchange, category |-> category]

\* The catalog the _add calls build, keyed by the symbol field.
INSTRUMENTS ==
    {
      FuturesInstrument(<<"E", "S">>, "E-mini S&P 500", <<50, 1>>, "ES=F", "CME", "Equity Index"),
      FuturesInstrument(<<"N", "Q">>, "E-mini Nasdaq 100", <<20, 1>>, "NQ=F", "CME", "Equity Index"),
      FuturesInstrument(<<"Y", "M">>, "E-mini Dow ($5)", <<5, 1>>, "YM=F", "CBOT", "Equity Index"),
      FuturesInstrument(<<"R", "T", "Y">>, "E-mini Russell 2000", <<50, 1>>, "RTY=F", "CME", "Equity Index"),
      FuturesInstrument(<<"E", "M", "D">>, "E-mini S&P MidCap 400", <<100, 1>>, "EMD=F", "CME", "Equity Index"),
      FuturesInstrument(<<"M", "E", "S">>, "Micro E-mini S&P 500", <<5, 1>>, "MES=F", "CME", "Micro Equity Index"),
      FuturesInstrument(<<"M", "N", "Q">>, "Micro E-mini Nasdaq 100", <<2, 1>>, "MNQ=F", "CME", "Micro Equity Index"),
      FuturesInstrument(<<"M", "Y", "M">>, "Micro E-mini Dow ($0.50)", <<1, 2>>, "MYM=F", "CBOT", "Micro Equity Index"),
      FuturesInstrument(<<"M", "2", "K">>, "Micro E-mini Russell 2000", <<5, 1>>, "M2K=F", "CME", "Micro Equity Index"),
      FuturesInstrument(<<"C", "L">>, "Crude Oil (WTI)", <<1000, 1>>, "CL=F", "NYMEX", "Energy"),
      FuturesInstrument(<<"N", "G">>, "Natural Gas", <<10000, 1>>, "NG=F", "NYMEX", "Energy"),
      FuturesInstrument(<<"R", "B">>, "RBOB Gasoline", <<42000, 1>>, "RB=F", "NYMEX", "Energy"),
      FuturesInstrument(<<"H", "O">>, "Heating Oil", <<42000, 1>>, "HO=F", "NYMEX", "Energy"),
      FuturesInstrument(<<"M", "C", "L">>, "Micro WTI Crude Oil", <<100, 1>>, "MCL=F", "NYMEX", "Micro Energy"),
      FuturesInstrument(<<"M", "N", "G">>, "Micro Natural Gas", <<1000, 1>>, "MNG=F", "NYMEX", "Micro Energy"),
      FuturesInstrument(<<"G", "C">>, "Gold", <<100, 1>>, "GC=F", "COMEX", "Metals"),
      FuturesInstrument(<<"S", "I">>, "Silver", <<5000, 1>>, "SI=F", "COMEX", "Metals"),
      FuturesInstrument(<<"H", "G">>, "Copper", <<25000, 1>>, "HG=F", "COMEX", "Metals"),
      FuturesInstrument(<<"P", "L">>, "Platinum", <<50, 1>>, "PL=F", "NYMEX", "Metals"),
      FuturesInstrument(<<"P", "A">>, "Palladium", <<100, 1>>, "PA=F", "NYMEX", "Metals"),
      FuturesInstrument(<<"M", "G", "C">>, "Micro Gold", <<10, 1>>, "MGC=F", "COMEX", "Micro Metals"),
      FuturesInstrument(<<"S", "I", "L">>, "Micro Silver", <<1000, 1>>, "SIL=F", "COMEX", "Micro Metals"),
      FuturesInstrument(<<"Z", "B">>, "30-Year Treasury Bond", <<1000, 1>>, "ZB=F", "CBOT", "Treasuries"),
      FuturesInstrument(<<"Z", "N">>, "10-Year Treasury Note", <<1000, 1>>, "ZN=F", "CBOT", "Treasuries"),
      FuturesInstrument(<<"Z", "F">>, "5-Year Treasury Note", <<1000, 1>>, "ZF=F", "CBOT", "Treasuries"),
      FuturesInstrument(<<"Z", "T">>, "2-Year Treasury Note", <<2000, 1>>, "ZT=F", "CBOT", "Treasuries"),
      FuturesInstrument(<<"U", "B">>, "Ultra Treasury Bond", <<1000, 1>>, "UB=F", "CBOT", "Treasuries"),
      FuturesInstrument(<<"6", "E">>, "Euro FX", <<125000, 1>>, "6E=F", "CME", "Currencies"),
      FuturesInstrument(<<"6", "J">>, "Japanese Yen", <<12500000, 1>>, "6J=F", "CME", "Currencies"),
      FuturesInstrument(<<"6", "B">>, "British Pound", <<62500, 1>>, "6B=F", "CME", "Currencies"),
      FuturesInstrument(<<"6", "A">>, "Australian Dollar", <<100000, 1>>, "6A=F", "CME", "Currencies"),
      FuturesInstrument(<<"6", "C">>, "Canadian Dollar", <<100000, 1>>, "6C=F", "CME", "Currencies"),
      FuturesInstrument(<<"6", "S">>, "Swiss Franc", <<125000, 1>>, "6S=F", "CME", "Currencies"),
      FuturesInstrument(<<"M", "6", "E">>, "Micro Euro FX", <<12500, 1>>, "M6E=F", "CME", "Micro Currencies"),
      FuturesInstrument(<<"M", "6", "A">>, "Micro AUD/USD", <<10000, 1>>, "M6A=F", "CME", "Micro Currencies"),
      FuturesInstrument(<<"Z", "C">>, "Corn", <<50, 1>>, "ZC=F", "CBOT", "Grains"),
      FuturesInstrument(<<"Z", "S">>, "Soybeans", <<50, 1>>, "ZS=F", "CBOT", "Grains"),
      FuturesInstrument(<<"Z", "W">>, "Wheat", <<50, 1>>, "ZW=F", "CBOT", "Grains"),
      FuturesInstrument(<<"Z", "M">>, "Soybean Meal", <<100, 1>>, "ZM=F", "CBOT", "Grains"),
      FuturesInstrument(<<"Z", "L">>, "Soybean Oil", <<600, 1>>, "ZL=F", "CBOT", "Grains"),
      FuturesInstrument(<<"K", "C">>, "Coffee", <<37500, 1>>, "KC=F", "ICE", "Softs"),
      FuturesInstrument(<<"S", "B">>, "Sugar #11", <<1120, 1>>, "SB=F", "ICE", "Softs"),
      FuturesInstrument(<<"C", "T">>, "Cotton", <<50000, 1>>, "CT=F", "ICE", "Softs"),
      FuturesInstrument(<<"C", "C">>, "Cocoa", <<10, 1>>, "CC=F", "ICE", "Softs"),
      FuturesInstrument(<<"L", "E">>, "Live Cattle", <<400, 1>>, "LE=F", "CME", "Livestock"),
      FuturesInstrument(<<"H", "E">>, "Lean Hogs", <<400, 1>>, "HE=F", "CME", "Livestock"),
      FuturesInstrument(<<"V", "X">>, "VIX Futures", <<1000, 1>>, "VX=F", "CFE", "Volatility")
    }

\* A mutant of get_instrument: the key is looked up as given.
get_instrument_case_sensitive(symbol) ==
    IF \E inst \in INSTRUMENTS : inst.symbol = Str(symbol)
    THEN Some(CHOOSE inst \in INSTRUMENTS : inst.symbol = Str(symbol))
    ELSE None

\* INSTRUMENTS.get(symbol.upper()): Some(entry) or None.
get_instrument(symbol) ==
    IF \E inst \in INSTRUMENTS : inst.symbol = Str(upper(symbol))
    THEN Some(CHOOSE inst \in INSTRUMENTS : inst.symbol = Str(upper(symbol)))
    ELSE None

MONTH_CODES ==
    [month \in 1..12 |->
        << "F", "G", "H", "J", "K", "M", "N", "Q", "U", "V", "X", "Z" >>[month]]

\* A mutant of TwoDigits: the number is written without padding.
TwoDigits_unpadded(n) == ToString(n)

\* f"{yy:02d}" for 0 <= yy < 100.
TwoDigits(n) == IF n < 10 THEN "0" \o ToString(n) ELSE ToString(n)

\* build_contract_symbol(instrument, month, year): the symbol, or the
\* KeyError of MONTH_CODES[month].
build_contract_symbol(inst, month, year) ==
    IF month \notin DOMAIN MONTH_CODES THEN Raises("KeyError")
    ELSE LET code == MONTH_CODES[month]
             yy == year % 100
         IN  Return(Str(inst) \o code \o TwoDigits(yy))

\* _EXCHANGE_TO_YAHOO_SUFFIX as the set of its items.
EXCHANGE_TO_YAHOO_SUFFIX ==
    { <<"CME", "CME">>, <<"CBOT", "CBT">>, <<"NYMEX", "NYM">>, <<"COMEX", "CMX">>,
      <<"ICE", "NYB">>, <<"CFE", "CFE">> }

\* A mutant of build_yahoo_contract_ticker: the exchange name itself is the
\* suffix.
build_yahoo_contract_ticker_exchange(inst, month, year) ==
    LET found == get_instrument(inst)
    IN  IF found = None THEN Return(None)
        ELSE IF month \notin DOMAIN MONTH_CODES THEN Raises("KeyError")
        ELSE Return(Some(Str(inst) \o MONTH_CODES[month] \o TwoDigits(year % 100)
                         \o "." \o found[1].exchange))

\* build_yahoo_contract_ticker(instrument, month, year): Return(None),
\* Return(Some(ticker)) or the KeyError of MONTH_CODES[month].
build_yahoo_contract_ticker(inst, month, year) ==
    LET found == get_instrument(inst)
    IN  IF found = None THEN Return(None)
        ELSE IF ~\E e \in EXCHANGE_TO_YAHOO_SUFFIX : e[1] = found[1].exchange
             THEN Return(None)
        ELSE IF month \notin DOMAIN MONTH_CODES THEN Raises("KeyError")
        ELSE LET suffix == (CHOOSE e \in EXCHANGE_TO_YAHOO_SUFFIX :
                               e[1] = found[1].exchange)[2]
                 code == MONTH_CODES[month]
                 yy == year % 100
             IN  Return(Some(Str(inst) \o code \o TwoDigits(yy) \o "." \o suffix))

\* ---- futures_instruments: price fetching --------------------------------
\* A date is its proleptic Gregorian ordinal: date.min is day 1 and date.max
\* (9999-12-31) is day 3652059.

\* date + timedelta(days): the date, or the OverflowError of a result outside
\* date.min..date.max.
DatePlus(d, days) ==
    IF d + days >= 1 /\ d + days <= 3652059
    THEN Return(d + days)
    ELSE Raises("OverflowError")

\* What the market-data source does with one request: it fails (an exception
\* of any kind, a timeout included) or answers with a history, a sequence of
\* <<days after the target date, close>> in date order, possibly empty.
SourceOutcomes ==
    { [kind |-> "exception", hist |-> <<>>],
      [kind |-> "history", hist |-> <<>>],
      [kind |-> "history", hist |-> << <<-1, 5990>>, <<0, 6000>>, <<1, 6010>> >>],
      [kind |-> "history", hist |-> << <<-4, 5970>>, <<-2, 5980>>, <<1, 6010>> >>],
      [kind |-> "history", hist |-> << <<1, 6010>> >>] }

\* The statements of the try block of fetch_close_price on a history that is
\* not empty: the close of the target date, else of the last date before it,
\* else of the last date of the history.
ClosestClose(hist) ==
    LET exact == { i \in 1..Len(hist) : hist[i][1] = 0 }
        before == { i \in 1..Len(hist) : hist[i][1] <= 0 }
    IN  IF exact # {} THEN hist[CHOOSE i \in exact : TRUE][2]
        ELSE IF before # {} THEN hist[CHOOSE i \in before : \A j \in before : j <= i][2]
        ELSE hist[Len(hist)][2]

\* fetch_close_price(yahoo_ticker, target_date) when the source behaves as
\* `source`: the window is computed before the try statement, everything
\* after it is inside.
fetch_close_price(yahoo_ticker, target_date, source) ==
    LET start == DatePlus(target_date, -5)
        end == DatePlus(target_date, 2)
    IN  IF start.raised # "" THEN start
        ELSE IF end.raised # "" THEN end
        ELSE IF source.kind = "exception" THEN Return(None)
        ELSE IF source.hist = <<>> THEN Return(None)
        ELSE Return(Some(ClosestClose(source.hist)))

\* fetch_price_for_instrument(symbol, target_date)
fetch_price_for_instrument(symbol, target_date, source) ==
    LET inst == get_instrument(symbol)
    IN  IF inst = None THEN Return(None)
        ELSE fetch_close_price(inst[1].yahoo_ticker, target_date, source)

\* ---- Inputs --------------------------------------------------------------

Ledgers == { <<"ES", 50>>, <<"CL", 1000>> }

InitialCalls ==
    { [contract_symbol |-> "ESH25", entry_date |-> "2025-01-15", entry_price |-> 5000,
       quantity |-> 1, direction |-> "LONG", notes |-> ""],
      [contract_symbol |-> "CLH25", entry_date |-> "2025-01-10", entry_price |-> 75,
       quantity |-> 1, direction |-> "SHORT", notes |-> ""],
      [contract_symbol |-> "ESH25", entry_date |-> "2025-01-15", entry_price |-> 5000,
       quantity |-> 2, direction |-> "LONG", notes |-> "core, hedge"] }

RollCalls ==
    { [exit_price |-> 5050, exit_date |-> "2025-03-14", new_contract_symbol |-> "ESM25",
       new_entry_price |-> 5060, new_entry_date |-> None, new_quantity |-> None,
       notes |-> ""],
      [exit_price |-> 4990, exit_date |-> "2025-06-13", new_contract_symbol |-> "ESU25",
       new_entry_price |-> 5000, new_entry_date |-> Some("2025-06-16"),
       new_quantity |-> Some(3), notes |-> "rolled, gap"],
      [exit_price |-> 72, exit_date |-> "2025-02-14", new_contract_symbol |-> "CLJ25",
       new_entry_price |-> 73, new_entry_date |-> Some("2025-02-14"),
       new_quantity |-> Some(0), notes |-> "flat \"0\""] }

CloseCalls ==
    { [exit_price |-> 5100, exit_date |-> "2025-09-12"],
      [exit_price |-> 70, exit_date |-> "2025-03-20"] }

NoArgs == [instrument |-> "", contract_multiplier |-> 0]

\* The current prices the valuation queries are asked at.
CurrentPrices == { 5100, 4900, 75 }

\* The argument record of a call that takes no argument.
NoParams == [self |-> "ledger"]

\* Ledgers as above, and one with a zero contract multiplier.
LedgersZ == Ledgers \cup { <<"ES", 0>> }

\* ---- RollLedger: operations ----------------------------------------------

\* RollLedger(instrument=..., contract_multiplier=...): rolls defaults to [].
Init ==
    /\ \E l \in Ledgers : instrument = l[1] /\ contract_multiplier = l[2]
    /\ rolls = <<>>
    /\ op = "__init__"
    /\ args = NoArgs
    /\ raised = ""
    /\ ret = 0
    /\ rolled = 0
    /\ result = None

\* raise ValueError(msg): the call ends there, before any assignment.
Raise(msg) == /\ raised' = msg
              /\ ret' = 0
              /\ UNCHANGED <<rolls, rolled>>

MsgAlreadyHasEntries == "Ledger already has entries. Use roll_contract() to add rolls."

MsgNoActiveToRoll == "No active contract to roll from."

MsgNoActiveToClose == "No active contract to close."

\* A mutant of add_initial_entry: the guard tests for an active period
\* instead of a non-empty list.
add_initial_entry_guard_active(a) ==
    /\ op' = "add_initial_entry"
    /\ args' = a
    /\ IF active_roll(rolls) # 0
       THEN Raise(MsgAlreadyHasEntries)
       ELSE /\ rolls' = Append(rolls, RollEntry(1, a.contract_symbol, a.entry_date,
                                 a.entry_price, a.quantity, a.direction, a.notes))
            /\ raised' = ""
            /\ ret' = Len(rolls')
            /\ UNCHANGED rolled
    /\ UNCHANGED <<instrument, contract_multiplier>>
    /\ result' = None

\* A mutant of add_initial_entry: no guard, the history is overwritten.
add_initial_entry_overwrite(a) ==
    /\ op' = "add_initial_entry"
    /\ args' = a
    /\ rolls' = << RollEntry(1, a.contract_symbol, a.entry_date,
                             a.entry_price, a.quantity, a.direction, a.notes) >>
    /\ raised' = ""
    /\ ret' = 1
    /\ UNCHANGED <<instrument, contract_multiplier, rolled>>
    /\ result' = None

\* A mutant of add_initial_entry: notes is not passed on to the RollEntry.
add_initial_entry_no_notes(a) ==
    /\ op' = "add_initial_entry"
    /\ args' = a
    /\ IF rolls # <<>>
       THEN Raise(MsgAlreadyHasEntries)
       ELSE /\ rolls' = Append(rolls, RollEntry(1, a.contract_symbol, a.entry_date,
                                 a.entry_price, a.quantity, a.direction, ""))
            /\ raised' = ""
            /\ ret' = Len(rolls')
            /\ UNCHANGED rolled
    /\ UNCHANGED <<instrument, contract_multiplier>>
    /\ result' = None

add_initial_entry(a) ==
    /\ op' = "add_initial_entry"
    /\ args' = a
    /\ IF rolls # <<>>
       THEN Raise(MsgAlreadyHasEntries)
       ELSE /\ rolls' = Append(rolls, RollEntry(1, a.contract_symbol, a.entry_date,
                                 a.entry_price, a.quantity, a.direction, a.notes))
            /\ raised' = ""
            /\ ret' = Len(rolls')
            /\ UNCHANGED rolled
    /\ UNCHANGED <<instrument, contract_multiplier>>
    /\ result' = None

\* A mutant of NewEntry: the new period reuses the old sequence number.
NewEntry_same_number(active, a) ==
    RollEntry(active.roll_number,
              a.new_contract_symbol,
              IF Truthy(a.new_entry_date) THEN a.new_entry_date[1] ELSE a.exit_date,
              a.new_entry_price,
              IF a.new_quantity # None THEN a.new_quantity[1] ELSE active.quantity,
              active.direction,
              a.notes)

\* A mutant of NewEntry: direction is not passed, the dataclass default applies.
NewEntry_default_direction(active, a) ==
    RollEntry(active.roll_number + 1,
              a.new_contract_symbol,
              IF Truthy(a.new_entry_date) THEN a.new_entry_date[1] ELSE a.exit_date,
              a.new_entry_price,
              IF a.new_quantity # None THEN a.new_quantity[1] ELSE active.quantity,
              "LONG",
              a.notes)

\* A mutant of NewEntry: the new period is entered at the old exit price.
NewEntry_entry_at_exit(active, a) ==
    RollEntry(active.roll_number + 1,
              a.new_contract_symbol,
              IF Truthy(a.new_entry_date) THEN a.new_entry_date[1] ELSE a.exit_date,
              a.exit_price,
              IF a.new_quantity # None THEN a.new_quantity[1] ELSE active.quantity,
              active.direction,
              a.notes)

\* A mutant of NewEntry: new_quantity is tested for truth, as new_entry_date
\* is, so a given quantity of 0 is replaced by the old quantity.
NewEntry_quantity_truthy(active, a) ==
    RollEntry(active.roll_number + 1,
              a.new_contract_symbol,
              IF Truthy(a.new_entry_date) THEN a.new_entry_date[1] ELSE a.exit_date,
              a.new_entry_price,
              IF a.new_quantity # None /\ a.new_quantity[1] # 0
              THEN a.new_quantity[1] ELSE active.quantity,
              active.direction,
              a.notes)

\* The period roll_contract opens after closing the period `active`.
NewEntry(active, a) ==
    RollEntry(active.roll_number + 1,
              a.new_contract_symbol,
              IF Truthy(a.new_entry_date) THEN a.new_entry_date[1] ELSE a.exit_date,
              a.new_entry_price,
              IF a.new_quantity # None THEN a.new_quantity[1] ELSE active.quantity,
              active.direction,
              a.notes)

\* A mutant of SetExit: the assignment to exit_price is missing.
SetExit_date_only(r, exit_price, exit_date) ==
    [r EXCEPT !.exit_date = Some(exit_date)]

\* A mutant of SetExit: the assignment to exit_date is missing.
SetExit_price_only(r, exit_price, exit_date) ==
    [r EXCEPT !.exit_price = Some(exit_price)]

\* The two assignments that close a period.
SetExit(r, exit_price, exit_date) ==
    [r EXCEPT !.exit_price = Some(exit_price), !.exit_date = Some(exit_date)]

\* A mutant of roll_contract: the old period is not closed before the append.
roll_contract_keeps_open(a) ==
    /\ op' = "roll_contract"
    /\ args' = a
    /\ LET i == active_roll(rolls)
       IN  IF i = 0
           THEN Raise(MsgNoActiveToRoll)
           ELSE /\ Len(rolls) < MaxRolls
                /\ rolls' = Append(rolls, NewEntry(rolls[i], a))
                /\ raised' = ""
                /\ ret' = Len(rolls')
                /\ rolled' = rolled + 1
    /\ UNCHANGED <<instrument, contract_multiplier>>
    /\ result' = None

roll_contract(a) ==
    /\ op' = "roll_contract"
    /\ args' = a
    /\ LET i == active_roll(rolls)
       IN  IF i = 0
           THEN Raise(MsgNoActiveToRoll)
           ELSE /\ Len(rolls) < MaxRolls
                /\ rolls' = Append([rolls EXCEPT ![i] = SetExit(rolls[i], a.exit_price, a.exit_date)],
                                   NewEntry(rolls[i], a))
                /\ raised' = ""
                /\ ret' = Len(rolls')
                /\ rolled' = rolled + 1
    /\ UNCHANGED <<instrument, contract_multiplier>>
    /\ result' = None

\* A mutant of close_position: the active period is removed from the list.
close_position_pop(a) ==
    /\ op' = "close_position"
    /\ args' = a
    /\ LET i == active_roll(rolls)
       IN  IF i = 0
           THEN Raise(MsgNoActiveToClose)
           ELSE /\ rolls' = SubSeq(rolls, 1, i - 1)
                /\ raised' = ""
                /\ ret' = 0
                /\ UNCHANGED rolled
    /\ UNCHANGED <<instrument, contract_multiplier>>
    /\ result' = None

close_position(a) ==
    /\ op' = "close_position"
    /\ args' = a
    /\ LET i == active_roll(rolls)
       IN  IF i = 0
           THEN Raise(MsgNoActiveToClose)
           ELSE /\ rolls' = [rolls EXCEPT ![i] = SetExit(rolls[i], a.exit_price, a.exit_date)]
                /\ raised' = ""
                /\ ret' = 0
                /\ UNCHANGED rolled
    /\ UNCHANGED <<instrument, contract_multiplier>>
    /\ result' = None

Next ==
    \/ \E a \in InitialCalls : add_initial_entry(a)
    \/ \E a \in RollCalls : roll_contract(a)
    \/ \E a \in CloseCalls : close_position(a)

Spec == Init /\ [][Next]_vars

\* ---- RollLedger: valuation queries as calls ------------------------------

\* A call of a method that assigns to nothing: the caller sees its outcome,
\* the ledger is as before.
Query(name, a, out) ==
    /\ op' = name
    /\ args' = a
    /\ raised' = out.raised
    /\ result' = out.value
    /\ ret' = 0
    /\ UNCHANGED <<instrument, contract_multiplier, rolls, rolled>>

call_total_realized_pnl ==
    Query("total_realized_pnl", NoParams,
          Return(total_realized_pnl(rolls, contract_multiplier)))

call_total_realized_pnl_per_contract ==
    Query("total_realized_pnl_per_contract", NoParams,
          Return(total_realized_pnl_per_contract(rolls)))

call_breakeven_price ==
    Query("breakeven_price", NoParams, breakeven_price(rolls, contract_multiplier))

call_true_pnl(current_price) ==
    Query("true_pnl", [current_price |-> current_price],
          Return(true_pnl(rolls, contract_multiplier, current_price)))

call_true_pnl_per_contract(current_price) ==
    Query("true_pnl_per_contract", [current_price |-> current_price],
          Return(true_pnl_per_contract(rolls, contract_multiplier, current_price)))

\* A mutant of call_cumulative_pnl_series: the loop consumes self.rolls
\* (pop) instead of iterating over it.
call_cumulative_pnl_series_draining ==
    /\ op' = "cumulative_pnl_series"
    /\ args' = NoParams
    /\ raised' = ""
    /\ result' = cumulative_pnl_series(rolls, contract_multiplier)
    /\ ret' = 0
    /\ rolls' = <<>>
    /\ UNCHANGED <<instrument, contract_multiplier, rolled>>

call_cumulative_pnl_series ==
    Query("cumulative_pnl_series", NoParams,
          Return(cumulative_pnl_series(rolls, contract_multiplier)))

call_to_csv_string ==
    Query("to_csv_string", NoParams,
          Return(to_csv_string(instrument, contract_multiplier, rolls)))

Queries ==
    { "total_realized_pnl", "total_realized_pnl_per_contract", "breakeven_price",
      "true_pnl", "true_pnl_per_contract", "cumulative_pnl_series", "to_csv_string" }

NextQ ==
    \/ \E a \in InitialCalls : add_initial_entry(a)
    \/ \E a \in RollCalls : roll_contract(a)
    \/ \E a \in CloseCalls : close_position(a)
    \/ call_total_realized_pnl
    \/ call_total_realized_pnl_per_contract
    \/ call_breakeven_price
    \/ \E p \in CurrentPrices : call_true_pnl(p)
    \/ \E p \in CurrentPrices : call_true_pnl_per_contract(p)
    \/ call_cumulative_pnl_series
    \/ call_to_csv_string

\* The ledger under its mutating operations and its valuation queries.
SpecQ == Init /\ [][NextQ]_vars

\* ---- RollLedger.from_csv_string -------------------------------------------

\* The numbers that occur in the ledgers of the model.
Numbers ==
    (0..(MaxRolls + 1))
    \cup { l[2] : l \in LedgersZ }
    \cup { a.entry_price : a \in InitialCalls } \cup { a.quantity : a \in InitialCalls }
    \cup { a.exit_price : a \in RollCalls } \cup { a.new_entry_price : a \in RollCalls }
    \cup { a.exit_price : a \in CloseCalls }

\* The numerals float() accepts, each with its value: with or without a
\* fraction part.
FloatNumerals ==
    { <<FloatStr(x), x>> : x \in Numbers } \cup { <<IntStr(x), x>> : x \in Numbers }

\* The numerals int() accepts, each with its value: without a fraction part.
IntNumerals == { <<IntStr(x), x>> : x \in Numbers }

\* float(s)
ParseFloat(s) ==
    IF \E e \in FloatNumerals : e[1] = s
    THEN Return((CHOOSE e \in FloatNumerals : e[1] = s)[2])
    ELSE Raises("ValueError")

\* int(s)
ParseInt(s) ==
    IF \E e \in IntNumerals : e[1] = s
    THEN Return((CHOOSE e \in IntNumerals : e[1] = s)[2])
    ELSE Raises("ValueError")

\* A mutant of MetaRow: a "#meta" row whose value is not a number still sets
\* the instrument.
MetaRow_labels(row, acc) ==
    LET f == ParseFloat(row[3])
    IN  [acc EXCEPT !.instrument = row[2],
                    !.multiplier = IF f.raised = "" THEN f.value ELSE acc.multiplier]

\* The body of the try statement on a "#meta" row of more than two cells.
MetaRow(row, acc) ==
    LET f == ParseFloat(row[3])
    IN  IF f.raised = ""
        THEN [acc EXCEPT !.instrument = row[2], !.multiplier = f.value]
        ELSE acc

RECURSIVE MetaScan(_, _, _)
\* The loop over enumerate(rows) from row i on; data_start counts rows from 0.
MetaScan(rows, i, acc) ==
    IF i > Len(rows) THEN acc
    ELSE LET row == rows[i]
         IN  IF row = <<>> THEN MetaScan(rows, i + 1, acc)
             ELSE IF row[1] = "#meta" /\ Len(row) > 2
                  THEN MetaScan(rows, i + 1, MetaRow(row, acc))
             ELSE IF row[1] = "roll_number" THEN [acc EXCEPT !.data_start = i]
             ELSE MetaScan(rows, i + 1, acc)

\* A mutant of ParseRoll: a missing quantity is read as 0.
ParseRoll_quantity_zero(row) ==
    LET roll_number == ParseInt(row[1])
        entry_price == ParseFloat(row[4])
        exit_price == IF row[6] # "" THEN ParseFloat(row[6]) ELSE Return(0)
        quantity == IF Len(row) > 6 /\ row[7] # "" THEN ParseInt(row[7]) ELSE Return(0)
    IN  IF \E o \in {roll_number, entry_price, exit_price, quantity} : o.raised # ""
        THEN Raises("ValueError")
        ELSE Return([ roll_number |-> roll_number.value,
                      contract_symbol |-> row[2],
                      entry_date |-> row[3],
                      entry_price |-> entry_price.value,
                      exit_date |-> IF row[5] # "" THEN Some(row[5]) ELSE None,
                      exit_price |-> IF row[6] # "" THEN Some(exit_price.value) ELSE None,
                      quantity |-> quantity.value,
                      direction |-> IF Len(row) > 7 /\ row[8] # "" THEN row[8] ELSE "LONG",
                      notes |-> IF Len(row) > 8 THEN row[9] ELSE "" ])

\* A mutant of ParseRoll: the direction cell is not read, the dataclass
\* default applies.
ParseRoll_direction_default(row) ==
    LET roll_number == ParseInt(row[1])
        entry_price == ParseFloat(row[4])
        exit_price == IF row[6] # "" THEN ParseFloat(row[6]) ELSE Return(0)
        quantity == IF Len(row) > 6 /\ row[7] # "" THEN ParseInt(row[7]) ELSE Return(1)
    IN  IF \E o \in {roll_number, entry_price, exit_price, quantity} : o.raised # ""
        THEN Raises("ValueError")
        ELSE Return([ roll_number |-> roll_number.value,
                      contract_symbol |-> row[2],
                      entry_date |-> row[3],
                      entry_price |-> entry_price.value,
                      exit_date |-> IF row[5] # "" THEN Some(row[5]) ELSE None,
                      exit_price |-> IF row[6] # "" THEN Some(exit_price.value) ELSE None,
                      quantity |-> quantity.value,
                      direction |-> "LONG",
                      notes |-> IF Len(row) > 8 THEN row[9] ELSE "" ])

\* RollEntry(...) built from a row of at least six cells, or the ValueError
\* of int() or float().
ParseRoll(row) ==
    LET roll_number == ParseInt(row[1])
        entry_price == ParseFloat(row[4])
        exit_price == IF row[6] # "" THEN ParseFloat(row[6]) ELSE Return(0)
        quantity == IF Len(row) > 6 /\ row[7] # "" THEN ParseInt(row[7]) ELSE Return(1)
    IN  IF \E o \in {roll_number, entry_price, exit_price, quantity} : o.raised # ""
        THEN Raises("ValueError")
        ELSE Return([ roll_number |-> roll_number.value,
                      contract_symbol |-> row[2],
                      entry_date |-> row[3],
                      entry_price |-> entry_price.value,
                      exit_date |-> IF row[5] # "" THEN Some(row[5]) ELSE None,
                      exit_price |-> IF row[6] # "" THEN Some(exit_price.value) ELSE None,
                      quantity |-> quantity.value,
                      direction |-> IF Len(row) > 7 /\ row[8] # "" THEN row[8] ELSE "LONG",
                      notes |-> IF Len(row) > 8 THEN row[9] ELSE "" ])

RECURSIVE ParseRolls(_, _, _)
\* The loop over rows[data_start:] from row i on, rs the periods appended so
\* far: rows that are empty or shorter than six cells are skipped.
ParseRolls(rows, i, rs) ==
    IF i > Len(rows) THEN Return(rs)
    ELSE IF rows[i] = <<>> \/ Len(rows[i]) < 6 THEN ParseRolls(rows, i + 1, rs)
    ELSE LET r == ParseRoll(rows[i])
         IN  IF r.raised # "" THEN r ELSE ParseRolls(rows, i + 1, Append(rs, r.value))

\* The ledger from_csv_string returns for a text, or what it raises.
from_csv_string(csv_text) ==
    LET rd == csv_reader(csv_text)
    IN  IF rd.raised # "" THEN rd
        ELSE LET meta == MetaScan(rd.value, 1,
                                  [instrument |-> "", multiplier |-> 1, data_start |-> 0])
                 rs == ParseRolls(rd.value, meta.data_start + 1, <<>>)
             IN  IF rs.raised # "" THEN rs
                 ELSE Return([ instrument |-> meta.instrument,
                               contract_multiplier |-> meta.multiplier,
                               rolls |-> rs.value ])

\* ---- Texts given to from_csv_string -------------------------------------
\* Each is what the writer produces for the rows of the ledger, as they are or
\* after one edit of a file.

\* rows with the cells of its last row replaced by cells.
WithLastRow(rows, cells) == [rows EXCEPT ![Len(rows)] = cells]

Edited(rows, e) ==
    CASE e.edit = "none" -> rows
      [] e.edit = "meta_swapped" -> <<rows[2], rows[1]>> \o SubSeq(rows, 3, Len(rows))
      [] e.edit = "no_header" -> SubSeq(rows, 1, 3) \o SubSeq(rows, 5, Len(rows))
      [] e.edit = "truncated" ->
            WithLastRow(rows, SubSeq(rows[Len(rows)], 1, e.cell))
      [] e.edit = "blank" ->
            WithLastRow(rows, [rows[Len(rows)] EXCEPT ![e.cell] = ""])

CsvEdits ==
    { [edit |-> "none", cell |-> 0], [edit |-> "meta_swapped", cell |-> 0],
      [edit |-> "no_header", cell |-> 0] }
    \cup { [edit |-> "truncated", cell |-> k] : k \in 3..8 }
    \cup { [edit |-> "blank", cell |-> k] : k \in 1..4 }

\* RollLedger.from_csv_string(csv_text), a classmethod: the ledger it builds
\* is a new object, the ledger at hand is as before.  The edits of a period
\* row need a period row.
call_from_csv_string(e) ==
    /\ e.edit \in {"truncated", "blank"} => rolls # <<>>
    /\ LET csv_text == WriteRows(Edited(to_csv_rows(instrument, contract_multiplier, rolls), e), 1)
       IN  Query("from_csv_string", [csv_text |-> csv_text], from_csv_string(csv_text))

\* The calls that build the ledgers to serialize: a SHORT position, notes
\* with the delimiter and with the quote character, a quantity of its own.
CsvInitialCalls == { a \in InitialCalls : a.direction = "SHORT" \/ a.notes # "" }

CsvRollCalls == { a \in RollCalls : a.notes # "" }

CsvCloseCalls == { a \in CloseCalls : a.exit_date = "2025-03-20" }

NextCsv ==
    \/ \E a \in CsvInitialCalls : add_initial_entry(a)
    \/ \E a \in CsvRollCalls : roll_contract(a)
    \/ \E a \in CsvCloseCalls : close_position(a)
    \/ \E e \in CsvEdits : call_from_csv_string(e)

\* The ledger under its mutating operations, serialization and
\* deserialization.
SpecCsv == Init /\ [][NextCsv]_vars

\* ---- The operations on a ledger other than the one at hand ----------------
\* A ledger value l has the fields of RollLedger; each operation gives what
\* it raises ("" for a normal return) and the ledger as the call leaves it.

add_initial_entry_on(l, a) ==
    IF l.rolls # <<>>
    THEN [raised |-> MsgAlreadyHasEntries, ledger |-> l]
    ELSE [raised |-> "",
          ledger |-> [l EXCEPT !.rolls =
                        Append(@, RollEntry(1, a.contract_symbol, a.entry_date,
                                            a.entry_price, a.quantity, a.direction,
                                            a.notes))]]

roll_contract_on(l, a) ==
    LET i == active_roll(l.rolls)
    IN  IF i = 0
        THEN [raised |-> MsgNoActiveToRoll, ledger |-> l]
        ELSE [raised |-> "",
              ledger |-> [l EXCEPT !.rolls =
                            Append([@ EXCEPT ![i] = SetExit(@, a.exit_price, a.exit_date)],
                                   NewEntry(l.rolls[i], a))]]

close_position_on(l, a) ==
    LET i == active_roll(l.rolls)
    IN  IF i = 0
        THEN [raised |-> MsgNoActiveToClose, ledger |-> l]
        ELSE [raised |-> "",
              ledger |-> [l EXCEPT !.rolls[i] = SetExit(@, a.exit_price, a.exit_date)]]

\* The call name(a) made on the ledger l.
Apply(l, name, a) ==
    CASE name = "add_initial_entry" -> add_initial_entry_on(l, a)
      [] name = "roll_contract" -> roll_contract_on(l, a)
      [] name = "close_position" -> close_position_on(l, a)

\* ---- futures_instruments: calls ------------------------------------------

\* Every spelling of a catalog symbol in upper and lower case.
RECURSIVE CaseVariants(_)
CaseVariants(cs) ==
    IF cs = <<>> THEN { <<>> }
    ELSE LET lower == { c \in { LowerLetters[i] : i \in 1..Len(LowerLetters) } :
                          UpperChar(c) = cs[1] }
         IN  { <<c>> \o rest : c \in {cs[1]} \cup lower, rest \in CaseVariants(Tail(cs)) }

\* The catalog symbols, as sequences of characters.
CatalogSymbols ==
    { <<"E", "S">>, <<"N", "Q">>, <<"Y", "M">>, <<"R", "T", "Y">>, <<"E", "M", "D">>,
      <<"M", "E", "S">>, <<"M", "N", "Q">>, <<"M", "Y", "M">>, <<"M", "2", "K">>,
      <<"C", "L">>, <<"N", "G">>, <<"R", "B">>, <<"H", "O">>, <<"M", "C", "L">>,
      <<"M", "N", "G">>, <<"G", "C">>, <<"S", "I">>, <<"H", "G">>, <<"P", "L">>,
      <<"P", "A">>, <<"M", "G", "C">>, <<"S", "I", "L">>, <<"Z", "B">>, <<"Z", "N">>,
      <<"Z", "F">>, <<"Z", "T">>, <<"U", "B">>, <<"6", "E">>, <<"6", "J">>, <<"6", "B">>,
      <<"6", "A">>, <<"6", "C">>, <<"6", "S">>, <<"M", "6", "E">>, <<"M", "6", "A">>,
      <<"Z", "C">>, <<"Z", "S">>, <<"Z", "W">>, <<"Z", "M">>, <<"Z", "L">>, <<"K", "C">>,
      <<"S", "B">>, <<"C", "T">>, <<"C", "C">>, <<"L", "E">>, <<"H", "E">>, <<"V", "X">> }

\* Symbols that are not in the catalog in any spelling.
UnknownSymbols ==
    { <<"F", "A", "K", "E">>, <<"e", "s", "h">>, <<"E", " ", "S">>, <<"6">>, <<>> }

LookupSymbols == UNION { CaseVariants(cs) : cs \in CatalogSymbols } \cup UnknownSymbols

\* The instrument arguments of the symbol builders.
BuilderSymbols ==
    { <<"E", "S">>, <<"e", "s">>, <<"M", "E", "S">>, <<"Z", "B">>, <<"C", "L">>,
      <<"G", "C">>, <<"K", "C">>, <<"V", "X">>, <<"F", "A", "K", "E">> }

Months == 1..13

Years == { 1999, 2000, 2005, 2025, 2026, 2030 }

call_get_instrument(symbol) ==
    Query("get_instrument", [symbol |-> symbol], Return(get_instrument(symbol)))

call_build_contract_symbol(inst, month, year) ==
    Query("build_contract_symbol", [instrument |-> inst, month |-> month, year |-> year],
          build_contract_symbol(inst, month, year))

call_build_yahoo_contract_ticker(inst, month, year) ==
    Query("build_yahoo_contract_ticker",
          [instrument |-> inst, month |-> month, year |-> year],
          build_yahoo_contract_ticker(inst, month, year))

NextInst ==
    \/ \E symbol \in LookupSymbols : call_get_instrument(symbol)
    \/ \E inst \in BuilderSymbols, month \in Months, year \in Years :
          call_build_contract_symbol(inst, month, year)
    \/ \E inst \in BuilderSymbols, month \in Months, year \in Years :
          call_build_yahoo_contract_ticker(inst, month, year)

\* The functions of the catalog module, called in any order.
SpecInst == Init /\ [][NextInst]_vars

\* The dates asked for: 0001-01-01, 0001-01-06, 2025-01-15, 9999-12-29 and
\* 9999-12-30.
TargetDates == { 1, 6, 739266, 3652057, 3652058 }

FetchTickers == { "ES=F", "FAKE=F" }

FetchSymbols == { <<"E", "S">>, <<"c", "l">>, <<"F", "A", "K", "E">> }

call_fetch_close_price(yahoo_ticker, target_date, source) ==
    Query("fetch_close_price",
          [yahoo_ticker |-> yahoo_ticker, target_date |-> target_date, source |-> source],
          fetch_close_price(yahoo_ticker, target_date, source))

call_fetch_price_for_instrument(symbol, target_date, source) ==
    Query("fetch_price_for_instrument",
          [symbol |-> symbol, target_date |-> target_date, source |-> source],
          fetch_price_for_instrument(symbol, target_date, source))

NextFetch ==
    \/ \E a \in CsvInitialCalls : add_initial_entry(a)
    \/ \E a \in CsvCloseCalls : close_position(a)
    \/ \E t \in FetchTickers, d \in TargetDates, source \in SourceOutcomes :
          call_fetch_close_price(t, d, source)
    \/ \E symbol \in FetchSymbols, d \in TargetDates, source \in SourceOutcomes :
          call_fetch_price_for_instrument(symbol, d, source)

\* A ledger being opened and closed while prices are fetched.
SpecFetch == Init /\ [][NextFetch]_vars

\* ---- The SHORT ledger of the tests ----------------------------------------
\* test_short_direction_multi_roll enters at 72.5.  In this specification
\* every price is counted in half points and every amount of money in half
\* dollars (75.0 is 150, 72.0 is 144, 72.5 is 145, $3000 is 6000); the
\* multiplier, dollars per point, is the same number in half dollars per half
\* point.  Sums, differences, the product with multiplier and quantity and
\* the breakeven all scale with the unit.

ShortInitialCalls ==
    { [contract_symbol |-> "CLH25", entry_date |-> "2025-01-10", entry_price |-> 150,
       quantity |-> 1, direction |-> "SHORT", notes |-> ""] }

ShortRollCalls ==
    { [exit_price |-> 144, exit_date |-> "2025-02-14", new_contract_symbol |-> "CLJ25",
       new_entry_price |-> 145, new_entry_date |-> None, new_quantity |-> None,
       notes |-> ""],
      [exit_price |-> 147, exit_date |-> "2025-03-14", new_contract_symbol |-> "CLK25",
       new_entry_price |-> 148, new_entry_date |-> None, new_quantity |-> Some(2),
       notes |-> ""] }

ShortCloseCalls == { [exit_price |-> 140, exit_date |-> "2025-03-20"] }

ShortPrices == { 140, 151 }

\* RollLedger(instrument="CL", contract_multiplier=1000.0)
InitShort ==
    /\ instrument = "CL"
    /\ contract_multiplier = 1000
    /\ rolls = <<>>
    /\ op = "__init__"
    /\ args = NoArgs
    /\ raised = ""
    /\ ret = 0
    /\ rolled = 0
    /\ result = None

NextShort ==
    \/ \E a \in ShortInitialCalls : add_initial_entry(a)
    \/ \E a \in ShortRollCalls : roll_contract(a)
    \/ \E a \in ShortCloseCalls : close_position(a)
    \/ call_total_realized_pnl
    \/ call_breakeven_price
    \/ \E p \in ShortPrices : call_true_pnl(p)

SpecShort == InitShort /\ [][NextShort]_vars

\* RollLedger(...) as in Init, the multiplier 0.0 included.
InitZ ==
    /\ \E l \in LedgersZ : instrument = l[1] /\ contract_multiplier = l[2]
    /\ rolls = <<>>
    /\ op = "__init__"
    /\ args = NoArgs
    /\ raised = ""
    /\ ret = 0
    /\ rolled = 0
    /\ result = None

SpecZ == InitZ /\ [][NextQ]_vars

\* ---- Properties ----------------------------------------------------------

\* Positions of the active periods of rs.
ActiveSet(rs) == { i \in 1..Len(rs) : is_active(rs[i]) }

\* C1: add_initial_entry on a ledger that already holds a period (its last
\* period active or closed) raises and leaves instrument, multiplier and
\* every field of every period as they were.
C1_InitialTwiceRejected ==
    [][ (op' = "add_initial_entry" /\ rolls # <<>>)
        => /\ raised' = MsgAlreadyHasEntries
           /\ ret' = 0
           /\ ledger' = ledger ]_vars

C1_Witness ==
    /\ op = "add_initial_entry"
    /\ raised = MsgAlreadyHasEntries
    /\ Len(rolls) >= 2
    /\ ActiveSet(rolls) = {}

\* C2: roll_contract and close_position on a ledger without an active
\* period (empty, or all periods closed) raise their "no active contract"
\* error; no exit field is set and no period is appended.
C2_NoActiveRejected ==
    [][ (op' \in {"roll_contract", "close_position"} /\ ActiveSet(rolls) = {})
        => /\ raised' = (IF op' = "roll_contract" THEN MsgNoActiveToRoll
                                                   ELSE MsgNoActiveToClose)
           /\ ret' = 0
           /\ ledger' = ledger ]_vars

C2_Witness ==
    /\ op = "roll_contract"
    /\ raised = MsgNoActiveToRoll
    /\ rolls # <<>>
    /\ ActiveSet(rolls) = {}

\* C3: add_initial_entry on an empty ledger appends exactly one period: it
\* is active, numbered 1 and carries the six arguments; the call returns
\* that period, it is the active period, and total realized P&L is 0.
C3_InitialEntryOpens ==
    [][ (op' = "add_initial_entry" /\ rolls = <<>>)
        => /\ raised' = ""
           /\ Len(rolls') = 1
           /\ rolls'[1].roll_number = 1
           /\ rolls'[1].contract_symbol = args'.contract_symbol
           /\ rolls'[1].entry_date = args'.entry_date
           /\ rolls'[1].entry_price = args'.entry_price
           /\ rolls'[1].quantity = args'.quantity
           /\ rolls'[1].direction = args'.direction
           /\ rolls'[1].notes = args'.notes
           /\ rolls'[1].exit_price = None
           /\ rolls'[1].exit_date = None
           /\ ret' = 1
           /\ active_roll(rolls') = ret'
           /\ total_realized_pnl(rolls', contract_multiplier') = 0 ]_vars

C3_Witness ==
    /\ op = "add_initial_entry"
    /\ raised = ""
    /\ Len(rolls) = 1
    /\ rolls[1].notes # ""
    /\ rolls[1].direction = "LONG"

\* C4: a successful roll_contract closes the active period with the given
\* exit price and date and, in the same step, appends one active period
\* numbered one higher, with the old direction and the new_* label, entry
\* price and notes; it returns the new period, now the active one.
C4_RollClosesAndOpens ==
    [][ (op' = "roll_contract" /\ ActiveSet(rolls) # {})
        => LET i == active_roll(rolls)
               n == Len(rolls')
           IN  /\ raised' = ""
               /\ n = Len(rolls) + 1
               /\ rolls'[i].exit_price = Some(args'.exit_price)
               /\ rolls'[i].exit_date = Some(args'.exit_date)
               /\ ~is_active(rolls'[i])
               /\ is_active(rolls'[n])
               /\ rolls'[n].roll_number = rolls[i].roll_number + 1
               /\ rolls'[n].direction = rolls[i].direction
               /\ rolls'[n].contract_symbol = args'.new_contract_symbol
               /\ rolls'[n].entry_price = args'.new_entry_price
               /\ rolls'[n].notes = args'.notes
               /\ ret' = n
               /\ active_roll(rolls') = ret' ]_vars

C4_Witness ==
    /\ op = "roll_contract"
    /\ raised = ""
    /\ Len(rolls) >= 3
    /\ rolls[Len(rolls)].entry_price # rolls[Len(rolls) - 1].exit_price[1]

\* C5: a successful close_position sets the exit price and exit date of the
\* active period to the arguments and appends nothing; afterwards no period
\* is active.
C5_CloseSetsExit ==
    [][ (op' = "close_position" /\ ActiveSet(rolls) # {})
        => LET i == active_roll(rolls)
           IN  /\ raised' = ""
               /\ Len(rolls') = Len(rolls)
               /\ rolls'[i].exit_price = Some(args'.exit_price)
               /\ rolls'[i].exit_date = Some(args'.exit_date)
               /\ ActiveSet(rolls') = {} ]_vars

C5_Witness ==
    /\ op = "close_position"
    /\ raised = ""
    /\ Len(rolls) >= 2
    /\ rolls[Len(rolls)].exit_price = Some(args.exit_price)

\* C6: CLOSED is terminal: from a non-empty ledger without an active period
\* every call raises, the periods do not change and no period is active
\* afterwards.
C6_ClosedIsTerminal ==
    [][ (rolls # <<>> /\ ActiveSet(rolls) = {})
        => /\ raised' # ""
           /\ rolls' = rolls
           /\ ActiveSet(rolls') = {} ]_vars

C6_Witness ==
    /\ op = "close_position"
    /\ raised = MsgNoActiveToClose
    /\ Len(rolls) >= 2
    /\ ActiveSet(rolls) = {}

\* C7: at most one period is active, and an active period is the last one.
C7_AtMostOneActiveAndLast ==
    /\ Cardinality(ActiveSet(rolls)) <= 1
    /\ ActiveSet(rolls) \subseteq {Len(rolls)}

C7_Witness ==
    /\ Len(rolls) >= 3
    /\ ActiveSet(rolls) = {Len(rolls)}
    /\ raised # ""

\* C8: the period at position i carries sequence number i; after the
\* initial entry and N successful rolls there are N + 1 periods, and while
\* the position is open exactly N of them are closed.
C8_SequenceNumbers ==
    /\ \A i \in 1..Len(rolls) : rolls[i].roll_number = i
    /\ rolls # <<>> => Len(rolls) = rolled + 1
    /\ ActiveSet(rolls) # {} => Len(closed_rolls(rolls)) = rolled

C8_Witness ==
    /\ rolled = 3
    /\ Len(rolls) = 4
    /\ Len(closed_rolls(rolls)) = 3
    /\ ActiveSet(rolls) # {}

\* C9: every period has exit price and exit date both present or both
\* absent, and is active exactly when its exit price is absent.
C9_ExitFieldsTogether ==
    \A i \in 1..Len(rolls) :
        /\ (rolls[i].exit_price = None) <=> (rolls[i].exit_date = None)
        /\ (i \in ActiveSet(rolls)) <=> (rolls[i].exit_price = None)

C9_Witness ==
    /\ Len(rolls) >= 2
    /\ rolls[1].exit_price # None
    /\ rolls[1].exit_date # None
    /\ rolls[Len(rolls)].exit_price = None
    /\ rolls[Len(rolls)].exit_date = None

\* C10: every period has the direction given to the initial entry: the
\* initial entry stores its direction argument, and no later step leaves a
\* period whose direction differs from the first period's.
C10_DirectionPreserved ==
    [][ /\ (op' = "add_initial_entry" /\ rolls = <<>>)
           => \A i \in 1..Len(rolls') : rolls'[i].direction = args'.direction
        /\ rolls # <<>>
           => \A i \in 1..Len(rolls') : rolls'[i].direction = rolls[1].direction ]_vars

C10_Witness ==
    /\ Len(rolls) >= 3
    /\ \A i \in 1..Len(rolls) : rolls[i].direction = "SHORT"

\* The fields of a period that are set when it is created.
CreatedFields(r) ==
    <<r.roll_number, r.contract_symbol, r.entry_date, r.entry_price,
      r.quantity, r.direction, r.notes>>

\* C11: the period sequence is append-only: no step removes or reorders a
\* period; a step changes a period only if it is the active one and the
\* call is roll_contract or close_position, and then only its exit price
\* and exit date; a closed period never changes again.
C11_AppendOnly ==
    [][ /\ Len(rolls') >= Len(rolls)
        /\ \A i \in 1..Len(rolls) :
              /\ CreatedFields(rolls'[i]) = CreatedFields(rolls[i])
              /\ ~is_active(rolls[i]) => rolls'[i] = rolls[i]
              /\ rolls'[i] # rolls[i]
                 => /\ i = active_roll(rolls)
                    /\ op' \in {"roll_contract", "close_position"}
                    /\ ~is_active(rolls'[i]) ]_vars

C11_Witness ==
    /\ op = "close_position"
    /\ raised = ""
    /\ Len(rolls) >= 3
    /\ \A i \in 1..Len(rolls) : ~is_active(rolls[i])

\* The multipliers of the ledgers under test.
Multipliers == { l[2] : l \in Ledgers }

\* Exit minus entry for LONG, entry minus exit for SHORT.
Signed(direction, from, to) == IF direction = "LONG" THEN to - from ELSE from - to

\* C12: for a closed period, per-contract realized P&L is exit - entry when
\* LONG and entry - exit when SHORT, and realized P&L is that times the
\* multiplier times the period's quantity; for an active period both are
\* None.
C12_RealizedPnl ==
    \A i \in 1..Len(rolls) : \A m \in Multipliers :
        LET r == rolls[i]
        IN  IF r.exit_price # None
            THEN /\ r.direction = "LONG"
                    => realized_pnl_per_contract(r) = Some(r.exit_price[1] - r.entry_price)
                 /\ r.direction = "SHORT"
                    => realized_pnl_per_contract(r) = Some(r.entry_price - r.exit_price[1])
                 /\ realized_pnl(r, m)
                      = Some(Signed(r.direction, r.entry_price, r.exit_price[1]) * m * r.quantity)
            ELSE /\ realized_pnl_per_contract(r) = None
                 /\ realized_pnl(r, m) = None

C12_Witness ==
    /\ Len(rolls) >= 2
    /\ rolls[1].direction = "SHORT"
    /\ rolls[1].exit_price # None
    /\ realized_pnl(rolls[1], contract_multiplier)[1] > 0
    /\ is_active(rolls[Len(rolls)])

\* C13: for an active period and any current price, per-contract unrealized
\* P&L is current - entry when LONG and entry - current when SHORT, and
\* unrealized P&L is that times the multiplier times the quantity; for a
\* closed period both are None.
C13_UnrealizedPnl ==
    \A i \in 1..Len(rolls) : \A m \in Multipliers : \A p \in CurrentPrices :
        LET r == rolls[i]
        IN  IF r.exit_price = None
            THEN /\ r.direction = "LONG"
                    => unrealized_pnl_per_contract(r, p) = Some(p - r.entry_price)
                 /\ r.direction = "SHORT"
                    => unrealized_pnl_per_contract(r, p) = Some(r.entry_price - p)
                 /\ unrealized_pnl(r, p, m)
                      = Some(Signed(r.direction, r.entry_price, p) * m * r.quantity)
            ELSE /\ unrealized_pnl_per_contract(r, p) = None
                 /\ unrealized_pnl(r, p, m) = None

C13_Witness ==
    /\ Len(rolls) >= 2
    /\ rolls[1].exit_price # None
    /\ is_active(rolls[Len(rolls)])
    /\ rolls[Len(rolls)].direction = "SHORT"
    /\ rolls[Len(rolls)].quantity = 3

RECURSIVE ClosedDollars(_, _, _)
\* Sum over the closed periods among rs[1..i] of the signed price move times
\* the multiplier times the period's own quantity.
ClosedDollars(rs, m, i) ==
    IF i = 0 THEN 0
    ELSE ClosedDollars(rs, m, i - 1)
         + (IF rs[i].exit_price # None
            THEN Signed(rs[i].direction, rs[i].entry_price, rs[i].exit_price[1])
                 * m * rs[i].quantity
            ELSE 0)

RECURSIVE ClosedPoints(_, _)
\* Sum over the closed periods among rs[1..i] of the signed price move.
ClosedPoints(rs, i) ==
    IF i = 0 THEN 0
    ELSE ClosedPoints(rs, i - 1)
         + (IF rs[i].exit_price # None
            THEN Signed(rs[i].direction, rs[i].entry_price, rs[i].exit_price[1])
            ELSE 0)

\* C14: total_realized_pnl is the sum over the closed periods of per-contract
\* realized P&L x multiplier x the period's own quantity, 0 when no period is
\* closed; the call returns that value.
C14_TotalRealized ==
    /\ total_realized_pnl(rolls, contract_multiplier)
         = ClosedDollars(rolls, contract_multiplier, Len(rolls))
    /\ (\A i \in 1..Len(rolls) : is_active(rolls[i]))
         => total_realized_pnl(rolls, contract_multiplier) = 0
    /\ op = "total_realized_pnl"
         => /\ raised = ""
            /\ result = ClosedDollars(rolls, contract_multiplier, Len(rolls))

C14_Witness ==
    /\ op = "total_realized_pnl"
    /\ Len(rolls) = 4
    /\ is_active(rolls[4])
    /\ rolls[1].quantity # rolls[3].quantity
    /\ rolls[4].quantity # rolls[3].quantity
    /\ result # 0

\* C15: with an active period, true_pnl(p) is the active period's unrealized
\* P&L at p (multiplier- and quantity-scaled) plus total_realized_pnl; with
\* no active period it is None.
C15_TruePnl ==
    LET i == active_roll(rolls)
        expected(p) ==
            IF ActiveSet(rolls) = {} THEN None
            ELSE Some(Signed(rolls[i].direction, rolls[i].entry_price, p)
                        * contract_multiplier * rolls[i].quantity
                      + total_realized_pnl(rolls, contract_multiplier))
    IN  /\ \A p \in CurrentPrices : true_pnl(rolls, contract_multiplier, p) = expected(p)
        /\ op = "true_pnl" => raised = "" /\ result = expected(args.current_price)

C15_Witness ==
    /\ op = "true_pnl"
    /\ result # None
    /\ Len(rolls) >= 3
    /\ total_realized_pnl(rolls, contract_multiplier) # 0
    /\ rolls[Len(rolls)].quantity = 3

\* C16: with an active period, true_pnl_per_contract(p) is the active
\* period's per-contract unrealized P&L plus the sum of per-contract realized
\* P&L over the closed periods, a value computed from prices and directions
\* only (no multiplier, no quantity); with no active period it is None.
C16_TruePnlPerContract ==
    LET i == active_roll(rolls)
        expected(p) ==
            IF ActiveSet(rolls) = {} THEN None
            ELSE Some(Signed(rolls[i].direction, rolls[i].entry_price, p)
                      + ClosedPoints(rolls, Len(rolls)))
    IN  /\ \A p \in CurrentPrices :
              true_pnl_per_contract(rolls, contract_multiplier, p) = expected(p)
        /\ op = "true_pnl_per_contract"
              => raised = "" /\ result = expected(args.current_price)

C16_Witness ==
    /\ op = "true_pnl_per_contract"
    /\ result # None
    /\ Len(rolls) >= 3
    /\ ClosedPoints(rolls, Len(rolls)) # 0
    /\ rolls[Len(rolls)].quantity = 3

\* C17: with an active period of quantity Q # 0, breakeven_price() is the
\* fraction b with (entry - b) x M x Q = R when LONG and (b - entry) x M x Q
\* = R when SHORT, R being total_realized_pnl; it is None without an active
\* period or with Q = 0.
C17_Breakeven ==
    LET i == active_roll(rolls)
        M == contract_multiplier
        R == total_realized_pnl(rolls, contract_multiplier)
        out == breakeven_price(rolls, contract_multiplier)
    IN  /\ IF ActiveSet(rolls) = {} \/ rolls[i].quantity = 0
           THEN out = Return(None)
           ELSE LET b == out.value[1]
                    Q == rolls[i].quantity
                    e == rolls[i].entry_price
                IN  /\ out.raised = ""
                    /\ out.value # None
                    /\ b[2] > 0
                    /\ rolls[i].direction = "LONG"
                         => (e * b[2] - b[1]) * M * Q = R * b[2]
                    /\ rolls[i].direction = "SHORT"
                         => (b[1] - e * b[2]) * M * Q = R * b[2]
        /\ op = "breakeven_price" => raised = out.raised /\ result = out.value

C17_Witness ==
    /\ op = "breakeven_price"
    /\ result # None
    /\ result[1][2] = 3
    /\ rolls[Len(rolls)].direction = "SHORT"
    /\ rolls[Len(rolls)].quantity = 3

\* C18: breakeven direction law, for a positive multiplier and a positive
\* active quantity: with total realized P&L > 0 a LONG breakeven is strictly
\* below the active entry price and a SHORT breakeven strictly above it; with
\* total realized P&L < 0 both are reversed.
C18_BreakevenDirection ==
    LET i == active_roll(rolls)
        R == total_realized_pnl(rolls, contract_multiplier)
    IN  (/\ op = "breakeven_price"
         /\ ActiveSet(rolls) # {}
         /\ contract_multiplier > 0
         /\ rolls[i].quantity > 0)
        => /\ raised = ""
           /\ result # None
           /\ LET b == result[1]
                  e == rolls[i].entry_price
                  below == b[1] < e * b[2]
                  above == b[1] > e * b[2]
              IN  /\ b[2] > 0
                  /\ (R > 0 /\ rolls[i].direction = "LONG") => below
                  /\ (R > 0 /\ rolls[i].direction = "SHORT") => above
                  /\ (R < 0 /\ rolls[i].direction = "LONG") => above
                  /\ (R < 0 /\ rolls[i].direction = "SHORT") => below

C18_Witness ==
    /\ op = "breakeven_price"
    /\ ActiveSet(rolls) # {}
    /\ rolls[Len(rolls)].direction = "SHORT"
    /\ rolls[Len(rolls)].quantity > 0
    /\ total_realized_pnl(rolls, contract_multiplier) > 0
    /\ result # None

\* C19: breakeven_price() on a ledger whose active period has quantity 0, or
\* whose contract multiplier is 0, returns None and raises nothing.
C19_DivisionGuarded ==
    (/\ op = "breakeven_price"
     /\ ActiveSet(rolls) # {}
     /\ (rolls[active_roll(rolls)].quantity = 0 \/ contract_multiplier = 0))
    => /\ raised = ""
       /\ result = None

\* C20: a valuation query or to_csv_string changes no field of the ledger or
\* of a period, and asked again in the same state gives the same outcome.
C20_QueriesArePure ==
    [][ op' \in Queries
        => /\ ledger' = ledger
           /\ (op = op' /\ args = args') => (raised' = raised /\ result' = result) ]_vars

C20_Witness ==
    /\ op = "cumulative_pnl_series"
    /\ raised = ""
    /\ Len(rolls) >= 3
    /\ Len(result) = Len(rolls) + Len(closed_rolls(rolls))
    /\ ActiveSet(rolls) # {}

\* Position in the series of the entry event of period k: one event per
\* earlier period and one more per earlier closed period.
EntryIndex(rs, k) == k + Cardinality({ j \in 1..(k - 1) : ~is_active(rs[j]) })

\* C21: cumulative_pnl_series emits, in period order, one "entry" event per
\* period, immediately followed by one "exit/roll" event exactly when the
\* period is closed; the entry event carries the realized P&L of the earlier
\* periods, the exit/roll event that sum plus the period's own, so the total
\* starts at 0 and the entry of period k+1 repeats the exit/roll of period k.
C21_SeriesOrder ==
    op = "cumulative_pnl_series"
    => /\ raised = ""
       /\ Len(result) = Len(rolls) + Len(closed_rolls(rolls))
       /\ \A k \in 1..Len(rolls) :
             LET e == EntryIndex(rolls, k)
                 before == ClosedDollars(rolls, contract_multiplier, k - 1)
             IN  /\ result[e].event = "entry"
                 /\ result[e].roll_number = rolls[k].roll_number
                 /\ result[e].cum_pnl = before
                 /\ k = 1 => (e = 1 /\ result[e].cum_pnl = 0)
                 /\ IF is_active(rolls[k])
                    THEN e = Len(result) \/ result[e + 1].event = "entry"
                    ELSE /\ result[e + 1].event = "exit/roll"
                         /\ result[e + 1].roll_number = rolls[k].roll_number
                         /\ result[e + 1].cum_pnl
                              = before + realized_pnl(rolls[k], contract_multiplier)[1]
                         /\ k < Len(rolls)
                              => result[e + 2].cum_pnl = result[e + 1].cum_pnl

C21_Witness ==
    /\ op = "cumulative_pnl_series"
    /\ Len(rolls) = 4
    /\ is_active(rolls[4])
    /\ Len(result) = 7
    /\ result[2].cum_pnl # 0
    /\ result[4].cum_pnl # result[2].cum_pnl
    /\ result[6].cum_pnl # result[4].cum_pnl

\* The rows of the text given to the last from_csv_string call.
InputRows == csv_reader(args.csv_text).value

\* The fields of a period.
PeriodFields ==
    { "roll_number", "contract_symbol", "entry_date", "entry_price", "exit_date",
      "exit_price", "quantity", "direction", "notes" }

\* C22: from_csv_string of the text to_csv_string writes for a ledger returns
\* a ledger with the same instrument and multiplier and the same periods in
\* the same order, every field of every period equal (an absent exit stays
\* absent), notes with the field separator or the quote character included.
C22_RoundTrip ==
    (op = "from_csv_string"
     /\ args.csv_text = to_csv_string(instrument, contract_multiplier, rolls))
    => /\ raised = ""
       /\ result.instrument = instrument
       /\ result.contract_multiplier = contract_multiplier
       /\ Len(result.rolls) = Len(rolls)
       /\ \A k \in 1..Len(rolls) :
             \A f \in PeriodFields : result.rolls[k][f] = rolls[k][f]

C22_Witness ==
    /\ op = "from_csv_string"
    /\ args.csv_text = to_csv_string(instrument, contract_multiplier, rolls)
    /\ Len(rolls) = 4
    /\ rolls[1].notes = "core, hedge"
    /\ \E k \in 2..3 : rolls[k].notes = "flat \"0\""
    /\ is_active(rolls[4]) /\ ~is_active(rolls[3])
    /\ result.rolls = rolls

\* A period row without one of its four required cells.
LacksRequired(row) == Len(row) < 4 \/ \E c \in 1..4 : row[c] = ""

\* The positions of the period header rows of rows.
HeaderRows(rows) ==
    { i \in 1..Len(rows) : rows[i] # <<>> /\ rows[i][1] = "roll_number" }

\* C23: from_csv_string raises when the text has no period header row or when
\* a row after the header lacks its sequence number, label, entry date or
\* entry price.
C23_HardFailure ==
    (op = "from_csv_string"
     /\ \/ HeaderRows(InputRows) = {}
        \/ \E i \in 1..Len(InputRows) :
              /\ \E h \in HeaderRows(InputRows) : h < i
              /\ InputRows[i] # <<>>
              /\ LacksRequired(InputRows[i]))
    => raised # ""

C25_MetaDataRecord ==
    (op = "from_csv_string"
     /\ raised = ""
     /\ \E i, j \in 1..Len(InputRows) :
           /\ InputRows[i] = <<"#meta">> \o CSV_HEADER_META
           /\ InputRows[j] = <<"#meta", instrument, FloatStr(contract_multiplier)>>)
    => /\ result.instrument = instrument
       /\ result.contract_multiplier = contract_multiplier
       /\ result.instrument # CSV_HEADER_META[1]

C25_Witness ==
    /\ op = "from_csv_string"
    /\ raised = ""
    /\ Len(InputRows) >= 6
    /\ InputRows[1] = <<"#meta", instrument, FloatStr(contract_multiplier)>>
    /\ InputRows[2] = <<"#meta">> \o CSV_HEADER_META
    /\ result.instrument = "CL"
    /\ result.contract_multiplier = 1000

\* C26: the text to_csv_string returns is the "#meta" label line, the "#meta"
\* data line, a blank line, the period header row and then one row per
\* period in sequence order, each of nine cells in the order sequence number,
\* label, entry date, entry price, exit date, exit price, quantity,
\* direction, notes; exit date and exit price are empty exactly for an
\* active period.
C26_TextLayout ==
    op = "to_csv_string"
    => /\ raised = ""
       /\ SubSeq(result, 1, 16)
            = << "#meta", Comma, "instrument", Comma, "contract_multiplier", CR, LF,
                 "#meta", Comma, instrument, Comma, FloatStr(contract_multiplier), CR, LF,
                 CR, LF >>
       /\ LET rd == csv_reader(result)
          IN  /\ rd.raised = ""
              /\ Len(rd.value) = 4 + Len(rolls)
              /\ rd.value[3] = <<>>
              /\ rd.value[4] = CSV_HEADER_ROLLS
              /\ \A k \in 1..Len(rolls) :
                    LET row == rd.value[4 + k]
                        r == rolls[k]
                    IN  /\ Len(row) = 9
                        /\ row[1] = IntStr(k) /\ r.roll_number = k
                        /\ row[2] = r.contract_symbol
                        /\ row[3] = r.entry_date
                        /\ row[4] = FloatStr(r.entry_price)
                        /\ row[5] = (IF is_active(r) THEN "" ELSE r.exit_date[1])
                        /\ row[6] = (IF is_active(r) THEN "" ELSE FloatStr(r.exit_price[1]))
                        /\ (row[5] = "" /\ row[6] = "") <=> is_active(r)
                        /\ row[7] = IntStr(r.quantity)
                        /\ row[8] = r.direction
                        /\ row[9] = r.notes

C26_Witness ==
    /\ op = "to_csv_string"
    /\ Len(rolls) = 3
    /\ ~is_active(rolls[1]) /\ ~is_active(rolls[2]) /\ is_active(rolls[3])
    /\ rolls[1].notes = "core, hedge"
    /\ Len(csv_reader(result).value) = 7

\* C27: the period a successful roll_contract opens has the given exit date
\* as entry date when new_entry_date is not given and the quantity of the
\* period being closed when new_quantity is not given; a given
\* new_entry_date and a given new_quantity are used as they are.
C27_RollDefaults ==
    [][ (op' = "roll_contract" /\ raised' = "")
        => LET old == rolls[active_roll(rolls)]
               new == rolls'[Len(rolls')]
           IN  /\ Len(rolls') = Len(rolls) + 1
               /\ new.entry_date = IF args'.new_entry_date = None
                                   THEN args'.exit_date
                                   ELSE args'.new_entry_date[1]
               /\ new.quantity = IF args'.new_quantity = None
                                 THEN old.quantity
                                 ELSE args'.new_quantity[1] ]_vars

C27_Witness ==
    /\ op = "roll_contract"
    /\ raised = ""
    /\ args.new_entry_date = None /\ args.new_quantity = None
    /\ Len(rolls) >= 3
    /\ LET n == Len(rolls)
       IN  /\ rolls[n].entry_date = args.exit_date
           /\ rolls[n].entry_date = rolls[n - 1].exit_date[1]
           /\ rolls[n].quantity = 3 /\ rolls[n - 1].quantity = 3
           /\ rolls[n - 2].quantity # 3
           /\ rolls[n - 1].entry_date # rolls[n - 2].exit_date[1]

\* The ledger make_es_ledger() builds: multiplier 50, ESH25 entered at 5000 on
\* 2025-01-15 and rolled at 5050 on 2025-03-14 into ESM25 at 5060.
ESScenario ==
    /\ contract_multiplier = 50
    /\ rolls = << [RollEntry(1, "ESH25", "2025-01-15", 5000, 1, "LONG", "")
                     EXCEPT !.exit_price = Some(5050), !.exit_date = Some("2025-03-14")],
                  RollEntry(2, "ESM25", "2025-03-14", 5060, 1, "LONG", "") >>

\* C28: on the ledger with multiplier 50 after add_initial_entry(ESH25,
\* 2025-01-15, 5000, quantity 1, LONG) and roll_contract(5050, 2025-03-14,
\* ESM25, 5060), total_realized_pnl is 2500, breakeven_price() is 5010,
\* true_pnl(5100) is 4500 and true_pnl_per_contract(5100) is 90.
C28_LongScenario ==
    ESScenario
    => /\ total_realized_pnl(rolls, contract_multiplier) = 2500
       /\ breakeven_price(rolls, contract_multiplier) = Return(Some(<<5010, 1>>))
       /\ true_pnl(rolls, contract_multiplier, 5100) = Some(4500)
       /\ true_pnl_per_contract(rolls, contract_multiplier, 5100) = Some(90)
       /\ op = "total_realized_pnl" => (raised = "" /\ result = 2500)
       /\ op = "breakeven_price" => (raised = "" /\ result = Some(<<5010, 1>>))
       /\ (op = "true_pnl" /\ args.current_price = 5100)
             => (raised = "" /\ result = Some(4500))
       /\ (op = "true_pnl_per_contract" /\ args.current_price = 5100)
             => (raised = "" /\ result = Some(90))

C28_Witness ==
    /\ ESScenario
    /\ instrument = "ES"
    /\ op = "true_pnl"
    /\ args.current_price = 5100
    /\ result = Some(4500)

\* The ledger of test_short_direction_multi_roll, in half points: multiplier
\* 1000, CLH25 entered SHORT at 75.0 on 2025-01-10 and rolled at 72.0 on
\* 2025-02-14 into CLJ25 at 72.5.
ShortScenario ==
    /\ contract_multiplier = 1000
    /\ rolls = << [RollEntry(1, "CLH25", "2025-01-10", 150, 1, "SHORT", "")
                     EXCEPT !.exit_price = Some(144), !.exit_date = Some("2025-02-14")],
                  RollEntry(2, "CLJ25", "2025-02-14", 145, 1, "SHORT", "") >>

\* C29: on the ledger with multiplier 1000 after add_initial_entry(CLH25,
\* 2025-01-10, 75.0, SHORT) and roll_contract(72.0, 2025-02-14, CLJ25, 72.5),
\* total_realized_pnl is 3000 (6000 half dollars) and breakeven_price() is
\* 75.5 (151 half points: entry plus adjustment), not 69.5 (139 half points).
C29_ShortScenario ==
    ShortScenario
    => /\ total_realized_pnl(rolls, contract_multiplier) = 6000
       /\ op = "total_realized_pnl" => (raised = "" /\ result = 6000)
       /\ op = "breakeven_price"
             => /\ raised = ""
                /\ result # None
                /\ result[1][2] > 0
                /\ result[1][1] = 151 * result[1][2]
                /\ result[1][1] # 139 * result[1][2]

C29_Witness ==
    /\ ShortScenario
    /\ instrument = "CL"
    /\ op = "breakeven_price"
    /\ result = Some(<<151, 1>>)

SameLetter(c, d) ==
    c = d \/ \E i \in 1..Len(LowerLetters) : {c, d} = {LowerLetters[i], UpperLetters[i]}

\* s spells the catalog symbol cs in some mix of upper and lower case.
IsVariant(s, cs) ==
    Len(s) = Len(cs) /\ \A i \in 1..Len(cs) : SameLetter(s[i], cs[i])

\* The month letters, January to December.
MonthLetters == << "F", "G", "H", "J", "K", "M", "N", "Q", "U", "V", "X", "Z" >>

\* C31: for a month in 1..12, build_contract_symbol returns the instrument
\* string, the month's letter (F G H J K M N Q U V X Z) and year mod 100 as
\* two digits, the tens digit written also when it is 0.
C31_ContractSymbol ==
    (op = "build_contract_symbol" /\ args.month \in 1..12)
    => /\ raised = ""
       /\ LET yy == args.year % 100
          IN  result = Str(args.instrument) \o MonthLetters[args.month]
                       \o ToString(yy \div 10) \o ToString(yy % 10)

C31_Witness ==
    /\ op = "build_contract_symbol"
    /\ args.instrument = <<"M", "E", "S">>
    /\ args.month = 12
    /\ args.year = 2005
    /\ result = "MESZ05"

\* C32: get_instrument never raises; for a spelling of a catalog symbol in
\* any mix of upper and lower case it returns the catalog entry of that
\* symbol, and for any other string it returns None.
C32_LookupCaseInsensitive ==
    /\ { Str(cs) : cs \in CatalogSymbols } = { inst.symbol : inst \in INSTRUMENTS }
    /\ op = "get_instrument"
         => /\ raised = ""
            /\ \A cs \in CatalogSymbols :
                  IsVariant(args.symbol, cs)
                  => /\ result # None
                     /\ result[1] \in INSTRUMENTS
                     /\ result[1].symbol = Str(cs)
                     /\ result = get_instrument(cs)
            /\ (~\E cs \in CatalogSymbols : IsVariant(args.symbol, cs)) => result = None

C32_Witness ==
    /\ op = "get_instrument"
    /\ args.symbol = <<"m", "Y", "m">>
    /\ result # None
    /\ result[1].symbol = "MYM"
    /\ result[1].multiplier = <<1, 2>>
    /\ result[1].exchange = "CBOT"

\* C33: a price fetch never raises: fetch_close_price returns None when the
\* source fails or has no history, fetch_price_for_instrument returns None
\* for a symbol that is not in the catalog.
C33_FetchNeverRaises ==
    op \in {"fetch_close_price", "fetch_price_for_instrument"}
    => /\ raised = ""
       /\ (args.source.kind = "exception" \/ args.source.hist = <<>>) => result = None
       /\ (op = "fetch_price_for_instrument"
           /\ ~\E cs \in CatalogSymbols : IsVariant(args.symbol, cs)) => result = None

\* The Yahoo suffix of an exchange.
YahooSuffix(exchange) ==
    CASE exchange = "CME" -> "CME"
      [] exchange = "CBOT" -> "CBT"
      [] exchange = "NYMEX" -> "NYM"
      [] exchange = "COMEX" -> "CMX"
      [] exchange = "ICE" -> "NYB"
      [] exchange = "CFE" -> "CFE"

\* C34: build_yahoo_contract_ticker returns None for an instrument that is
\* not in the catalog; for a catalog instrument and a month in 1..12 it
\* returns what build_contract_symbol returns for the same arguments, then
\* "." and the Yahoo suffix of the instrument's exchange.
C34_YahooTicker ==
    op = "build_yahoo_contract_ticker"
    => IF ~\E cs \in CatalogSymbols : IsVariant(args.instrument, cs)
       THEN raised = "" /\ result = None
       ELSE args.month \in 1..12
            => /\ raised = ""
               /\ result # None
               /\ LET cs == CHOOSE c \in CatalogSymbols : IsVariant(args.instrument, c)
                      inst == CHOOSE i \in INSTRUMENTS : i.symbol = Str(cs)
                      built == build_contract_symbol(args.instrument, args.month, args.year)
                  IN  /\ built.raised = ""
                      /\ result[1] = built.value \o "." \o YahooSuffix(inst.exchange)

C34_Witness ==
    /\ op = "build_yahoo_contract_ticker"
    /\ args.instrument = <<"K", "C">>
    /\ args.month = 12
    /\ args.year = 2025
    /\ result = Some("KCZ25.NYB")

\* C35: a successful roll_contract or close_position at exit price x leaves
\* the true P&L where it was: true_pnl(x) before the call equals
\* total_realized_pnl after it and, after a roll, also true_pnl at the new
\* entry price, whatever the new entry price and the new quantity are.
C35_ContinuousAcrossRoll ==
    [][ (op' \in {"roll_contract", "close_position"} /\ raised' = "")
        => LET M == contract_multiplier
               after == total_realized_pnl(rolls', M)
           IN  /\ ActiveSet(rolls) # {}
               /\ true_pnl(rolls, M, args'.exit_price) = Some(after)
               /\ op' = "roll_contract"
                    => true_pnl(rolls', M, args'.new_entry_price) = Some(after)
               /\ op' = "close_position" => true_pnl(rolls', M, args'.exit_price) = None ]_vars

C35_Witness ==
    /\ op = "roll_contract"
    /\ raised = ""
    /\ Len(rolls) >= 3
    /\ LET n == Len(rolls)
       IN  /\ rolls[n].quantity # rolls[n - 1].quantity
           /\ rolls[n - 1].quantity > 1
           /\ rolls[n].entry_price # rolls[n - 1].exit_price[1]
           /\ rolls[n - 1].exit_price[1] # rolls[n - 1].entry_price
           /\ total_realized_pnl(rolls, contract_multiplier) # 0
           /\ true_pnl(rolls, contract_multiplier, rolls[n].entry_price)
                = Some(total_realized_pnl(rolls, contract_multiplier))

\* C36: with an active period of positive quantity Q and a positive
\* multiplier M, true_pnl(p) is (p - breakeven) x M x Q for LONG and
\* (breakeven - p) x M x Q for SHORT; so it is 0 at the breakeven, and it is
\* >= 0 exactly when p >= breakeven for LONG and p <= breakeven for SHORT.
C36_BreakevenIsZero ==
    (/\ op = "true_pnl"
     /\ ActiveSet(rolls) # {}
     /\ contract_multiplier > 0
     /\ rolls[active_roll(rolls)].quantity > 0)
    => LET i == active_roll(rolls)
           M == contract_multiplier
           Q == rolls[i].quantity
           p == args.current_price
           out == breakeven_price(rolls, M)
           sign == IF rolls[i].direction = "LONG" THEN 1 ELSE -1
       IN  /\ raised = "" /\ result # None
           /\ out.raised = "" /\ out.value # None
           /\ LET b == out.value[1]
                  diff == sign * (p * b[2] - b[1])
              IN  /\ b[2] > 0
                  /\ result[1] * b[2] = diff * M * Q
                  /\ result[1] >= 0 <=> diff >= 0
                  /\ result[1] = 0 <=> p * b[2] = b[1]
                  /\ b[2] = 1 => true_pnl(rolls, M, b[1]) = Some(0)

C36_Witness ==
    /\ op = "true_pnl"
    /\ ActiveSet(rolls) # {}
    /\ rolls[Len(rolls)].direction = "SHORT"
    /\ rolls[Len(rolls)].quantity = 3
    /\ result # None
    /\ result[1] < 0
    /\ LET out == breakeven_price(rolls, contract_multiplier)
       IN  /\ out.value # None
           /\ out.value[1][2] = 3
           /\ args.current_price * 3 > out.value[1][1]

\* C37: a successful roll_contract or close_position adds to
\* total_realized_pnl exactly (exit - entry) x multiplier x quantity of the
\* period it closes, signed by that period's direction, whatever the new
\* period is; add_initial_entry and a call that raises leave the total as it
\* was.
C37_GapNotSubtracted ==
    [][ LET M == contract_multiplier
            before == total_realized_pnl(rolls, M)
            after == total_realized_pnl(rolls', M)
        IN  /\ (op' \in {"roll_contract", "close_position"} /\ raised' = "")
                 => LET old == rolls[active_roll(rolls)]
                    IN  after = before
                                + Signed(old.direction, old.entry_price, args'.exit_price)
                                  * M * old.quantity
            /\ (op' = "add_initial_entry" \/ raised' # "") => after = before ]_vars

C37_Witness ==
    /\ op = "roll_contract"
    /\ raised = ""
    /\ Len(rolls) = 4
    /\ rolls[4].entry_price # rolls[3].exit_price[1]
    /\ rolls[4].quantity # rolls[3].quantity
    /\ rolls[3].direction = "LONG"
    /\ rolls[3].quantity = 3
    /\ realized_pnl(rolls[3], contract_multiplier)[1] < 0
    /\ total_realized_pnl(rolls, contract_multiplier)
         # realized_pnl(rolls[3], contract_multiplier)[1]

\* C38: in every state cumulative_pnl_series() has one event per period and
\* one more per closed period, none for an empty ledger, and the cum_pnl of
\* its last event is total_realized_pnl.
C38_SeriesAgreesWithTotal ==
    LET series == cumulative_pnl_series(rolls, contract_multiplier)
    IN  /\ Len(series) = Len(rolls) + Len(closed_rolls(rolls))
        /\ rolls = <<>> => series = <<>>
        /\ rolls # <<>>
             => series[Len(series)].cum_pnl
                  = total_realized_pnl(rolls, contract_multiplier)
        /\ op = "cumulative_pnl_series" => (raised = "" /\ result = series)

C38_Witness ==
    /\ op = "cumulative_pnl_series"
    /\ Len(rolls) = 3
    /\ ActiveSet(rolls) = {}
    /\ Len(result) = 6
    /\ result[6].cum_pnl = total_realized_pnl(rolls, contract_multiplier)
    /\ result[6].cum_pnl # 0
    /\ result[6].cum_pnl # realized_pnl(rolls[3], contract_multiplier)[1]

\* The ledger at hand, as a value.
ThisLedger ==
    [instrument |-> instrument, contract_multiplier |-> contract_multiplier, rolls |-> rolls]

\* What a caller can see of a ledger: its periods and the results of the
\* four queries, true_pnl at each of the current prices.
Observed(l) ==
    [ rolls |-> l.rolls,
      total_realized_pnl |-> total_realized_pnl(l.rolls, l.contract_multiplier),
      breakeven_price |-> breakeven_price(l.rolls, l.contract_multiplier),
      true_pnl |-> [p \in CurrentPrices |-> true_pnl(l.rolls, l.contract_multiplier, p)],
      cumulative_pnl_series |-> cumulative_pnl_series(l.rolls, l.contract_multiplier) ]

\* The calls of the mutating operations, by name.
MutatingCalls ==
    { [name |-> "add_initial_entry", a |-> a] : a \in CsvInitialCalls }
    \cup { [name |-> "roll_contract", a |-> a] : a \in CsvRollCalls }
    \cup { [name |-> "close_position", a |-> a] : a \in CsvCloseCalls }

\* What a caller sees when the calls c1 and then c2 are made on l: the
\* outcome of each and the ledger after each.
Replay(l, c1, c2) ==
    LET s1 == Apply(l, c1.name, c1.a)
        s2 == Apply(s1.ledger, c2.name, c2.a)
    IN  << s1.raised, Observed(s1.ledger), s2.raised, Observed(s2.ledger) >>

\* C39: a ledger restored by from_csv_string from the text to_csv_string
\* writes for the ledger at hand shows the same periods and query results as
\* the ledger at hand; the next operation made on the ledger at hand has, made
\* on the restored ledger, the same outcome and leaves the same periods and
\* query results; and so do any two further operations made on both.
C39_RestoredBehavesAlike ==
    [][ (/\ op = "from_csv_string"
         /\ raised = ""
         /\ args.csv_text = to_csv_string(instrument, contract_multiplier, rolls))
        => /\ Observed(result) = Observed(ThisLedger)
           /\ \A c1, c2 \in MutatingCalls :
                 Replay(result, c1, c2) = Replay(ThisLedger, c1, c2)
           /\ op' \in {"add_initial_entry", "roll_contract", "close_position"}
                => LET step == Apply(result, op', args')
                   IN  /\ step.raised = raised'
                       /\ Observed(step.ledger) = Observed(ThisLedger') ]_vars

\* A restored SHORT ledger of three periods with quoted notes, then rolled.
C39_Witness ==
    /\ op = "roll_contract"
    /\ raised = ""
    /\ Len(rolls) = 4
    /\ rolls[1].direction = "SHORT"
    /\ \E k \in 1..3 : rolls[k].notes = "flat \"0\""
    /\ LET before == [ThisLedger EXCEPT !.rolls =
                        [SubSeq(rolls, 1, 3) EXCEPT ![3].exit_price = None,
                                                    ![3].exit_date = None]]
           restored == from_csv_string(to_csv_string(before.instrument,
                                                     before.contract_multiplier,
                                                     before.rolls))
       IN  /\ restored.raised = ""
           /\ Apply(restored.value, "roll_contract", args).ledger = ThisLedger
           /\ breakeven_price(rolls, contract_multiplier).value # None

====
